---------------------------- MODULE Spec2Model ----------------------------
(***************************************************************************)
(* Model of the pairwise comparative evaluation and cross-pair aggregation *)
(* engine of EmotionalAgentEval:                                           *)
(*   src/batch_evaluation.py  discover_models, check_conversation_counts,  *)
(*                            run_batch_evaluation, aggregate_model_scores *)
(*   src/evaluator.py         LLMEvaluator.run_evaluation,                 *)
(*                            _evaluate_dimension, _parse_llm_response,    *)
(*                            aggregate_results                            *)
(*                                                                         *)
(* Python floats are modelled as exact rationals <<numerator, denominator>>*)
(* in lowest terms, so a mean is the exact quotient sum/len.  Optional     *)
(* values (a dict key that may be missing, an argument that may be None)   *)
(* are sequences of length at most one: <<>> is "absent", <<v>> is "v".    *)
(***************************************************************************)
EXTENDS Integers, Sequences, FiniteSets, TLC

(***************************************************************************)
(* Bounds of the model.                                                    *)
(***************************************************************************)
\* lowest and highest score the judge emits (a window of the prompts' scale)
MinScore == 1
MaxScore == 2
\* most conversations a conversation file holds
MaxConvs == 2
\* most conversations a conversation file holds in a batch run
MaxBatchConvs == 1

\* the longest judge reply, in tokens, of the runs that explore the parser
MaxTextLen == 2

\* the bits of a float's significand (Python's floats have 53)
MantissaBits == 3

(***************************************************************************)
(* Optional values.                                                        *)
(***************************************************************************)
None == <<>>

Some(v) == <<v>>

IsNone(o) == o = <<>>

Get(o) == o[1]

(***************************************************************************)
(* Exact rationals for Python's float results.                             *)
(***************************************************************************)
Abs(n) == IF n < 0 THEN -n ELSE n

RECURSIVE GCD(_, _)
GCD(a, b) == IF b = 0 THEN a ELSE GCD(b, a % b)

\* n/d in lowest terms with a positive denominator (d # 0)
Rat(n, d) ==
    LET s == IF d < 0 THEN -1 ELSE 1
        g == GCD(Abs(n), Abs(d))
    IN  <<(s * n) \div g, (s * d) \div g>>

Zero == <<0, 1>>

FromInt(n) == <<n, 1>>

RatAdd(x, y) == Rat(x[1] * y[2] + y[1] * x[2], x[2] * y[2])

RatDiv(x, k) == Rat(x[1], x[2] * k)

RatLess(x, y) == x[1] * y[2] < y[1] * x[2]

RECURSIVE RatSum(_)
RatSum(s) == IF s = <<>> THEN Zero ELSE RatAdd(s[1], RatSum(Tail(s)))

\* sum(scores) / len(scores) if scores else 0
Mean(scores) ==
    IF scores = <<>> THEN Zero ELSE RatDiv(RatSum(scores), Len(scores))

(***************************************************************************)
(* The same quotients as Python computes them: in binary floating point,   *)
(* every sum and every quotient rounded to the nearest float, ties to the  *)
(* even significand.                                                       *)
(***************************************************************************)
RECURSIVE Pow2(_)
Pow2(k) == IF k = 0 THEN 1 ELSE 2 * Pow2(k - 1)

\* x / 2^e
Scaled(x, e) ==
    IF e >= 0 THEN Rat(x[1], x[2] * Pow2(e)) ELSE Rat(x[1] * Pow2(-e), x[2])

\* the exponent of the float nearest to x > 0: x / 2^e has MantissaBits bits
\* before the point
Exponent(x) ==
    CHOOSE e \in (-4 * MantissaBits)..(4 * MantissaBits) :
        /\ ~RatLess(Scaled(x, e), FromInt(Pow2(MantissaBits - 1)))
        /\ RatLess(Scaled(x, e), FromInt(Pow2(MantissaBits)))

\* the float nearest to the rational x
Round(x) ==
    IF x[1] = 0 THEN Zero
    ELSE LET a == <<Abs(x[1]), x[2]>>
             e == Exponent(a)
             q == Scaled(a, e)
             m == q[1] \div q[2]
             r == 2 * (q[1] % q[2])
             up == r > q[2] \/ (r = q[2] /\ m % 2 = 1)
             n == IF up THEN m + 1 ELSE m
             v == Scaled(FromInt(n), -e)
         IN  IF x[1] < 0 THEN <<-v[1], v[2]>> ELSE v

\* sum(scores) of floats: from 0, left to right, every partial sum rounded
RECURSIVE FloatSumFrom(_, _)
FloatSumFrom(acc, scores) ==
    IF scores = <<>> THEN acc
    ELSE FloatSumFrom(Round(RatAdd(acc, scores[1])), Tail(scores))

FloatSum(scores) == FloatSumFrom(Zero, scores)

\* Faulty variant of FloatMean: the sum is not divided by the length.
FloatTotal(scores) ==
    IF scores = <<>> THEN Zero ELSE FloatSum(scores)

\* sum(scores) / len(scores) if scores else 0, on a list of floats
FloatMean(scores) ==
    IF scores = <<>> THEN Zero ELSE Round(RatDiv(FloatSum(scores), Len(scores)))

\* sum(scores_a) / len(scores_a) if scores_a else 0, on the integer scores of
\* the judge: the sum of Python integers is exact, the quotient is rounded
IntegerMean(scores) ==
    IF scores = <<>> THEN Zero
    ELSE Round(RatDiv(RatSum([i \in DOMAIN scores |-> FromInt(scores[i])]),
                      Len(scores)))

(***************************************************************************)
(* Sequence helpers.                                                       *)
(***************************************************************************)
Range(s) == {s[i] : i \in DOMAIN s}

\* the lowest of a set of scores
LowScore(scores) == CHOOSE v \in scores : \A w \in scores : v <= w

RECURSIVE Concat(_)
Concat(ss) == IF ss = <<>> THEN <<>> ELSE ss[1] \o Concat(Tail(ss))

\* the injective sequences (orderings) of the elements of a finite set
Orderings(S) ==
    {s \in [1..Cardinality(S) -> S] : \A i, j \in 1..Cardinality(S) : i # j => s[i] # s[j]}


(***************************************************************************)
(* The prompt-template registry and the judge's reply text.                *)
(***************************************************************************)
\* the dimensions _load_prompt_templates registers: one per *_PROMPT
\* attribute of the prompts module, lower-cased
PromptTemplates ==
    {"believability", "empathy", "appropriateness", "continuity",
     "communication", "social_rules"}

\* get_available_dimensions: the registry's keys, in dir() (alphabetical) order
AvailableDimensions ==
    <<"appropriateness", "believability", "communication", "continuity",
      "empathy", "social_rules">>

\* a dimension name with no template
UnknownDimension == "humor"

\* every dimension name of the model, in one fixed order
DimOrder == AvailableDimensions \o <<UnknownDimension>>

(* A reply text is a sequence of tokens.  "prose" is non-empty text without *)
(* braces, "obj" is one well-formed JSON object whose version_a_score and  *)
(* version_b_score keys hold a number or are missing, "lbrace" and "rbrace"*)
(* are prose holding one "{" and prose holding one "}" (so a span that     *)
(* starts or ends at such a brace is no JSON text).                        *)
Prose == [type |-> "prose", a |-> None, b |-> None]

LBrace == [type |-> "lbrace", a |-> None, b |-> None]

RBrace == [type |-> "rbrace", a |-> None, b |-> None]

Obj(a, b) == [type |-> "obj", a |-> a, b |-> b]

HasOpen(tok) == tok.type \in {"obj", "lbrace"}

HasClose(tok) == tok.type \in {"obj", "rbrace"}

\* _parse_llm_response: re.search(r"\{.*\}", text, re.DOTALL) is greedy, so
\* the match runs from the first "{" to the last "}" of the text; json.loads
\* accepts the match only when it is exactly one object.
ParseLLMResponse(text) ==
    LET opens  == {i \in DOMAIN text : HasOpen(text[i])}
        closes == {i \in DOMAIN text : HasClose(text[i])}
        first  == CHOOSE i \in opens : \A j \in opens : i <= j
        last   == CHOOSE i \in closes : \A j \in closes : j <= i
        sentinel == [parsing_error |-> TRUE, raw_response |-> Some(text),
                     version_a_score |-> None, version_b_score |-> None]
    IN  IF opens = {} \/ closes = {} THEN sentinel
        ELSE IF first = last /\ text[first].type = "obj"
             THEN [parsing_error |-> FALSE, raw_response |-> None,
                   version_a_score |-> text[first].a,
                   version_b_score |-> text[first].b]
             ELSE sentinel

(* call_llm either returns the reply text or raises (network, auth, quota) *)
Reply(text) == [ok |-> TRUE, text |-> text]

TransportError == [ok |-> FALSE, text |-> <<>>]

\* what one judge call may do when the judge answers with one of texts
Replies(texts) == {TransportError} \cup {Reply(t) : t \in texts}

(***************************************************************************)
(* LLMEvaluator.run_evaluation: one cell of the evaluation loop.           *)
(***************************************************************************)
\* log_data of one evaluated cell
LogData(counter, pair_idx, dimension, llm_response) ==
    [eval_id |-> counter, pair_index |-> pair_idx, dimension |-> dimension,
     conversation_a |-> pair_idx, conversation_b |-> pair_idx,
     llm_response |-> llm_response]

\* the loop's state before the first cell
NoCells ==
    [all_results |-> <<>>, eval_counter |-> 0, judge_calls |-> <<>>,
     skipped |-> <<>>, raised |-> FALSE]

\* Faulty variant of CellStep: the prompt is always built with the first
\* conversation of the right source.
CellStepRightFixed(st, pair_idx, dimension, reply) ==
    LET counter == st.eval_counter + 1
        call == [a |-> pair_idx, b |-> 0, dimension |-> dimension,
                 reply |-> reply]
    IN  IF dimension \notin PromptTemplates
        THEN [st EXCEPT !.eval_counter = counter,
                        !.skipped = Append(@, counter)]
        ELSE IF ~reply.ok
             THEN [st EXCEPT !.eval_counter = counter,
                             !.judge_calls = Append(@, call),
                             !.raised = TRUE]
             ELSE [st EXCEPT !.eval_counter = counter,
                             !.judge_calls = Append(@, call),
                             !.all_results =
                                 Append(@, LogData(counter, pair_idx, dimension,
                                                   ParseLLMResponse(reply.text)))]

\* Faulty variant of CellStep: a dimension without a template is sent to the
\* judge like any other.
CellStepNoSkip(st, pair_idx, dimension, reply) ==
    LET counter == st.eval_counter + 1
        call == [a |-> pair_idx, b |-> pair_idx, dimension |-> dimension,
                 reply |-> reply]
    IN  IF ~reply.ok
        THEN [st EXCEPT !.eval_counter = counter,
                        !.judge_calls = Append(@, call),
                        !.raised = TRUE]
        ELSE [st EXCEPT !.eval_counter = counter,
                        !.judge_calls = Append(@, call),
                        !.all_results =
                            Append(@, LogData(counter, pair_idx, dimension,
                                              ParseLLMResponse(reply.text)))]

\* the body of "for dimension in dimensions" for conversation index pair_idx:
\* an unregistered dimension is skipped with a warning and no judge call;
\* otherwise _evaluate_dimension calls the judge once, and an exception of
\* call_llm is caught nowhere in run_evaluation, so it leaves the loop
CellStep(st, pair_idx, dimension, reply) ==
    LET counter == st.eval_counter + 1
        call == [a |-> pair_idx, b |-> pair_idx, dimension |-> dimension,
                 reply |-> reply]
    IN  IF dimension \notin PromptTemplates
        THEN [st EXCEPT !.eval_counter = counter,
                        !.skipped = Append(@, counter)]
        ELSE IF ~reply.ok
             THEN [st EXCEPT !.eval_counter = counter,
                             !.judge_calls = Append(@, call),
                             !.raised = TRUE]
             ELSE [st EXCEPT !.eval_counter = counter,
                             !.judge_calls = Append(@, call),
                             !.all_results =
                                 Append(@, LogData(counter, pair_idx, dimension,
                                                   ParseLLMResponse(reply.text)))]

\* Faulty variant of NumPairs: the cap is not applied.
NumPairsUncapped(len_a, len_b, max_conversations) ==
    IF len_a < len_b THEN len_a ELSE len_b

\* num_pairs: min of the two lengths, then min with max_conversations if given
NumPairs(len_a, len_b, max_conversations) ==
    LET m == IF len_a < len_b THEN len_a ELSE len_b
    IN  IF IsNone(max_conversations) THEN m
        ELSE IF Get(max_conversations) < m THEN Get(max_conversations) ELSE m

\* range(num_pairs) x dimensions in loop order: the k-th cell (k from 1) has
\* conversation index (k-1) \div d and dimension dims[((k-1) % d) + 1]
CellCount(num_pairs, dims) == (IF num_pairs < 0 THEN 0 ELSE num_pairs) * Len(dims)

CellIndex(k, dims) == (k - 1) \div Len(dims)

CellDimension(k, dims) == dims[((k - 1) % Len(dims)) + 1]

\* the cells that call the judge: those of a registered dimension
JudgeCells(n, dims) == {k \in 1..n : CellDimension(k, dims) \in PromptTemplates}

\* the whole loop: cells 1..n in order, stopping at the first exception;
\* replies[k] is what the judge does when cell k calls it (a skipped cell
\* makes no call and has no reply)
RECURSIVE RunCells(_, _, _, _)
RunCells(st, n, dims, replies) ==
    IF st.raised \/ st.eval_counter >= n THEN st
    ELSE LET k == st.eval_counter + 1
             reply == IF k \in DOMAIN replies THEN replies[k] ELSE Reply(<<>>)
         IN  RunCells(CellStep(st, CellIndex(k, dims), CellDimension(k, dims), reply),
                      n, dims, replies)

(***************************************************************************)
(* LLMEvaluator.aggregate_results.                                         *)
(***************************************************************************)
\* Faulty variant of Scores: a cell counts only when both of its scores are
\* present.
RECURSIVE ScoresOfCompleteCells(_, _, _)
ScoresOfCompleteCells(all_results, dimension, side) ==
    IF all_results = <<>> THEN <<>>
    ELSE LET r == all_results[1]
             s == IF side = "a" THEN r.llm_response.version_a_score
                                ELSE r.llm_response.version_b_score
             rest == ScoresOfCompleteCells(Tail(all_results), dimension, side)
         IN  IF /\ r.dimension = dimension
                /\ ~IsNone(r.llm_response.version_a_score)
                /\ ~IsNone(r.llm_response.version_b_score)
             THEN <<FromInt(Get(s))>> \o rest
             ELSE rest

\* Faulty variant of Scores: an absent score is counted as 0.
RECURSIVE ScoresAbsentAsZero(_, _, _)
ScoresAbsentAsZero(all_results, dimension, side) ==
    IF all_results = <<>> THEN <<>>
    ELSE LET r == all_results[1]
             s == IF side = "a" THEN r.llm_response.version_a_score
                                ELSE r.llm_response.version_b_score
             rest == ScoresAbsentAsZero(Tail(all_results), dimension, side)
         IN  IF r.dimension # dimension THEN rest
             ELSE IF IsNone(s) THEN <<Zero>> \o rest
             ELSE <<FromInt(Get(s))>> \o rest

\* the present version_a_score ("a") or version_b_score ("b") values of the
\* logged cells of one dimension, in log order
RECURSIVE Scores(_, _, _)
Scores(all_results, dimension, side) ==
    IF all_results = <<>> THEN <<>>
    ELSE LET r == all_results[1]
             s == IF side = "a" THEN r.llm_response.version_a_score
                                ELSE r.llm_response.version_b_score
             rest == Scores(Tail(all_results), dimension, side)
         IN  IF r.dimension = dimension /\ ~IsNone(s)
             THEN <<FromInt(Get(s))>> \o rest
             ELSE rest

\* Faulty variant of AggregateResults: num_evaluations counts every logged
\* cell of the dimension.
AggregateResultsCountingCells(all_results) ==
    [d \in {all_results[i].dimension : i \in DOMAIN all_results} |->
        [path_1_average |-> Mean(Scores(all_results, d, "a")),
         path_2_average |-> Mean(Scores(all_results, d, "b")),
         num_evaluations |->
             Cardinality({i \in DOMAIN all_results : all_results[i].dimension = d})]]

\* aggregated["dimensions"]: one entry per dimension that has a logged cell
AggregateResults(all_results) ==
    [d \in {all_results[i].dimension : i \in DOMAIN all_results} |->
        [path_1_average |-> Mean(Scores(all_results, d, "a")),
         path_2_average |-> Mean(Scores(all_results, d, "b")),
         num_evaluations |-> Len(Scores(all_results, d, "a"))]]

(***************************************************************************)
(* batch_evaluation.py: systems, pairs and the cross-pair aggregation.     *)
(***************************************************************************)
\* a discovered model (category, name, path): the path is
\* <base>/<category>/<name>/conversations.json, so the two names carry it
Model(category, name) == [category |-> category, name |-> name]

\* model_label = f"{category}/{name}"
Label(m) == m.category \o "/" \o m.name

\* itertools.combinations(models, 2): the pairs <<models[i], models[j]>> with
\* i < j, in lexicographic order of (i, j)
RECURSIVE PairsFrom(_, _, _)
PairsFrom(models, i, j) ==
    IF i >= Len(models) THEN <<>>
    ELSE IF j > Len(models) THEN PairsFrom(models, i + 1, i + 2)
    ELSE <<<<models[i], models[j]>>>> \o PairsFrom(models, i, j + 1)

\* Faulty variant of Combinations (itertools.permutations in its place): the
\* pairs <<models[i], models[j]>> with i # j, so every unordered pair twice.
OrderedPairs(models) ==
    Concat([i \in DOMAIN models |->
              Concat([j \in DOMAIN models |->
                        IF i = j THEN <<>> ELSE <<<<models[i], models[j]>>>>])])

Combinations(models) == PairsFrom(models, 1, 2)

\* Faulty variant of AppendScore (an assignment in place of the append): the
\* dimension's list holds the latest value only.
OverwriteScore(dims, dimension, value) ==
    [d \in (DOMAIN dims) \cup {dimension} |->
        IF d = dimension THEN <<value>> ELSE dims[d]]

\* model_scores[label]["dimensions"][dimension].append(value), creating the
\* list on the dimension's first value
AppendScore(dims, dimension, value) ==
    [d \in (DOMAIN dims) \cup {dimension} |->
        IF d = dimension
        THEN (IF d \in DOMAIN dims THEN Append(dims[d], value) ELSE <<value>>)
        ELSE dims[d]]

\* every dimension's value of one side of a pair's results appended to the
\* lists of one model, and its num_comparisons incremented
RECURSIVE AppendAll(_, _, _, _)
AppendAll(dims, results, todo, field) ==
    IF todo = {} THEN dims
    ELSE LET d == CHOOSE x \in todo : TRUE
             v == IF field = "path_1_average" THEN results[d].path_1_average
                                               ELSE results[d].path_2_average
         IN  AppendAll(AppendScore(dims, d, v), results, todo \ {d}, field)

\* Faulty variant of AddSide: a pair without any result is not counted.
AddSideCountingScored(model_scores, label, results, field) ==
    [model_scores EXCEPT
        ![label].dimensions = AppendAll(@, results, DOMAIN results, field),
        ![label].num_comparisons = IF DOMAIN results = {} THEN @ ELSE @ + 1]

\* Faulty variant of AddSide: the comparison is counted for every model.
AddSideCountingAll(model_scores, label, results, field) ==
    [l \in DOMAIN model_scores |->
        IF l = label
        THEN [model_scores[l] EXCEPT
                !.dimensions = AppendAll(@, results, DOMAIN results, field),
                !.num_comparisons = @ + 1]
        ELSE [model_scores[l] EXCEPT !.num_comparisons = @ + 1]]

\* for one model of a pair: its side's average of every dimension of the
\* pair's results is appended, and the comparison is counted
AddSide(model_scores, label, results, field) ==
    [model_scores EXCEPT
        ![label].dimensions = AppendAll(@, results, DOMAIN results, field),
        ![label].num_comparisons = @ + 1]

\* "Initialize structure for each model"
InitModelScores(models) ==
    [l \in {Label(m) : m \in Range(models)} |->
        LET m == CHOOSE x \in Range(models) : Label(x) = l
        IN  [category |-> m.category, name |-> m.name,
             dimensions |-> [d \in {} |-> <<>>], num_comparisons |-> 0]]

\* Faulty variants of CollectPair: the two sides exchanged, and both models
\* given the left side's average.
CollectPairSwapped(model_scores, pair_result) ==
    AddSide(AddSide(model_scores, pair_result.model1, pair_result.results,
                    "path_2_average"),
            pair_result.model2, pair_result.results, "path_1_average")

CollectPairBothLeft(model_scores, pair_result) ==
    AddSide(AddSide(model_scores, pair_result.model1, pair_result.results,
                    "path_1_average"),
            pair_result.model2, pair_result.results, "path_1_average")

\* "Collect scores from all pair evaluations": model1 takes path_1_average,
\* model2 takes path_2_average
CollectPair(model_scores, pair_result) ==
    AddSide(AddSide(model_scores, pair_result.model1, pair_result.results,
                    "path_1_average"),
            pair_result.model2, pair_result.results, "path_2_average")

RECURSIVE CollectScores(_, _)
CollectScores(model_scores, pair_results) ==
    IF pair_results = <<>> THEN model_scores
    ELSE CollectScores(CollectPair(model_scores, pair_results[1]),
                       Tail(pair_results))

\* all_scores: the per-dimension lists of one model, concatenated
RECURSIVE AllScores(_, _)
AllScores(dims, order) ==
    IF order = <<>> THEN <<>>
    ELSE (IF order[1] \in DOMAIN dims THEN dims[order[1]] ELSE <<>>)
         \o AllScores(dims, Tail(order))

\* Faulty variant of OverallAverage: the mean of the per-dimension means.
MeanOfMeans(dims) ==
    Mean(AllScores([d \in DOMAIN dims |-> <<Mean(dims[d])>>], DimOrder))

\* "Calculate averages" for one model
DimensionAverage(scores) == Mean(scores)

OverallAverage(dims) == Mean(AllScores(dims, DimOrder))

\* the same averages in floating point, for the lists of one model
FloatAverages(dims) ==
    [dimensions |-> [d \in DOMAIN dims |-> FloatMean(dims[d])],
     overall_average |-> FloatMean(AllScores(dims, DimOrder))]

CalcAverages(data) ==
    [category |-> data.category, name |-> data.name,
     dimensions |-> [d \in DOMAIN data.dimensions |->
                        DimensionAverage(data.dimensions[d])],
     num_comparisons |-> data.num_comparisons,
     overall_average |-> OverallAverage(data.dimensions)]

\* aggregate_model_scores(pair_results, models)
AggregateModelScores(pair_results, models) ==
    LET collected == CollectScores(InitModelScores(models), pair_results)
    IN  [l \in DOMAIN collected |-> CalcAverages(collected[l])]

\* sorted(model_aggregate.items(), key=overall_average, reverse=True): a
\* stable sort, descending; items() come in the order of models
RECURSIVE InsertRanked(_, _, _)
InsertRanked(ranked, l, agg) ==
    IF ranked = <<>> THEN <<l>>
    ELSE IF RatLess(agg[ranked[1]].overall_average, agg[l].overall_average)
         THEN <<l>> \o ranked
         ELSE <<ranked[1]>> \o InsertRanked(Tail(ranked), l, agg)

RECURSIVE RankFrom(_, _, _)
RankFrom(ranked, labels, agg) ==
    IF labels = <<>> THEN ranked
    ELSE RankFrom(InsertRanked(ranked, labels[1], agg), Tail(labels), agg)

\* Faulty variant of SortedModels (reverse=True forgotten): ascending.
RECURSIVE Reversed(_)
Reversed(s) == IF s = <<>> THEN <<>> ELSE Append(Reversed(Tail(s)), s[1])

SortedAscending(agg, models) ==
    Reversed(RankFrom(<<>>, [i \in DOMAIN models |-> Label(models[i])], agg))

SortedModels(agg, models) ==
    RankFrom(<<>>, [i \in DOMAIN models |-> Label(models[i])], agg)

(***************************************************************************)
(* The environment: the files found under the base path, the arguments of  *)
(* the run, and what the judge answers.                                    *)
(***************************************************************************)
\* the model directories that may exist under <base>/baseline and <base>/ours
ModelPool == {Model("baseline", "A"), Model("baseline", "B"), Model("ours", "C")}

\* the dimension lists a run is asked for (the --dimensions argument): a
\* registered dimension, or one without a prompt template
BatchDimensionChoices == {<<"believability">>, <<UnknownDimension>>}

\* the reply texts of the judge in a batch run: prose with no object, or one
\* object carrying both scores
BatchTexts(scores) ==
    {<<Prose>>} \cup {<<Prose, Obj(Some(a), Some(b)), Prose>> : a, b \in scores}

VARIABLES
    \* --- environment and arguments
    fs,                 \* model directory -> number of conversations in its file
    dimensions,         \* the dimensions argument (optional list of names)
    num_conversations,  \* the conversation cap (optional), clamped in the batch
    judge_texts,        \* the reply texts the judge may give in this run
    \* --- run_batch_evaluation
    pc,                 \* where run_batch_evaluation stands
    models,             \* discover_models' result
    conv_min,           \* conv_counts["min"]
    all_pairs,          \* list(combinations(models, 2))
    idx,                \* 1-based position of the next pair of the loop
    pair_results,       \* the successful pairs' results
    failed,             \* pair indices reported "ERROR evaluating pair"
    sessions,           \* pair index -> the files of its session folder
    model_aggregate,    \* aggregate_model_scores' result (optional)
    files,              \* the batch folder's files written so far
    batch_aggregated,   \* the content of the batch's aggregated_results.json
    ranking,            \* Step 7's sorted_models, as labels
    output,             \* the warnings printed so far
    \* --- LLMEvaluator.run_evaluation, cell by cell
    ev_pc,              \* where run_evaluation stands
    conv_len,           \* <<len(conversations_a), len(conversations_b)>>
    num_pairs,          \* number of index-aligned conversation pairs
    ev,                 \* the loop: all_results, eval_counter, judge calls
    session,            \* the session folder's files
    \* --- aggregate_model_scores, pair result by pair result
    agg_pc,             \* where aggregate_model_scores stands
    agg_models,         \* its models argument
    agg_input,          \* its pair_results argument
    agg_i,              \* position of the next pair result to collect
    model_scores,       \* its model_scores dictionary
    \* --- the averages of one system of a batch, in floating point
    mean_pc,            \* which average is computed next
    mean_cells,         \* per pair of the system: its side's present scores
    mean_pairs,         \* the pair averages computed so far
    mean_result         \* the system's entry of model_aggregate (optional)

envVars == <<fs, dimensions, num_conversations, judge_texts>>

batchVars ==
    <<pc, models, conv_min, all_pairs, idx, pair_results, failed, sessions,
      model_aggregate, files, batch_aggregated, ranking, output>>

evalVars == <<ev_pc, conv_len, num_pairs, ev, session>>

aggVars == <<agg_pc, agg_models, agg_input, agg_i, model_scores>>

meanVars == <<mean_pc, mean_cells, mean_pairs, mean_result>>

vars == <<envVars, batchVars, evalVars, aggVars, meanVars>>

(***************************************************************************)
(* A session folder, and run_evaluation as a whole.                        *)
(***************************************************************************)
\* Faulty variant of NewSession: the metadata is written with its final
\* status from the start.
NewSessionMarkedCompleted ==
    [status |-> "completed", logs |-> None, aggregated |-> None,
     csv |-> FALSE, chart |-> FALSE]

\* after save_metadata with status "in_progress"
NewSession ==
    [status |-> "in_progress", logs |-> None, aggregated |-> None,
     csv |-> FALSE, chart |-> FALSE]

\* Faulty variant of CompletedSession: the log is kept in memory and never
\* written to evaluation_logs.json.
CompletedSessionUnlogged(all_results) ==
    [status |-> "completed", logs |-> None,
     aggregated |-> Some(AggregateResults(all_results)),
     csv |-> TRUE, chart |-> TRUE]

\* after Steps 5 to 9
CompletedSession(all_results) ==
    [status |-> "completed", logs |-> Some(all_results),
     aggregated |-> Some(AggregateResults(all_results)),
     csv |-> TRUE, chart |-> TRUE]

\* Faulty variant of ClampWarning: the comparison is >= instead of >.
ClampWarningAtEqual(len_a, len_b, max_conversations) ==
    IF ~IsNone(max_conversations)
       /\ Get(max_conversations) >= NumPairs(len_a, len_b, None)
    THEN <<"WARNING: Requested more conversations than available">>
    ELSE <<>>

\* the warning lines run_evaluation prints
ClampWarning(len_a, len_b, max_conversations) ==
    IF ~IsNone(max_conversations)
       /\ Get(max_conversations) > NumPairs(len_a, len_b, None)
    THEN <<"WARNING: Requested more conversations than available">>
    ELSE <<>>

SkipWarnings(st) ==
    [i \in DOMAIN st.skipped |-> "WARNING: No prompt template found"]

\* run_evaluation from its first line to its return or to the exception that
\* leaves it: the judge's replies are indexed by eval_counter, and io_ok says
\* whether writing the session's result files succeeds
RunEvaluation(len_a, len_b, dims, max_conversations, replies, io_ok) ==
    LET n  == NumPairs(len_a, len_b, max_conversations)
        st == RunCells(NoCells, CellCount(n, dims), dims, replies)
        warnings == ClampWarning(len_a, len_b, max_conversations)
                    \o SkipWarnings(st)
    IN  IF st.raised \/ ~io_ok
        THEN [raised |-> TRUE, session |-> NewSession, warnings |-> warnings]
        ELSE [raised |-> FALSE, session |-> CompletedSession(st.all_results),
              warnings |-> warnings]

(***************************************************************************)
(* run_batch_evaluation.                                                   *)
(***************************************************************************)
Present(category) == {m \in DOMAIN fs : m.category = category}

\* Step 1, discover_models: the baseline directories and then the ours
\* directories, each in the order iterdir() happens to yield
Discover ==
    /\ pc = "start"
    /\ \E b \in Orderings(Present("baseline")), o \in Orderings(Present("ours")) :
          models' = b \o o
    /\ pc' = "discovered"
    /\ UNCHANGED <<envVars, conv_min, all_pairs, idx, pair_results, failed,
                   sessions, model_aggregate, files, ranking, output,
                   batch_aggregated, evalVars, aggVars, meanVars>>

\* check_conversation_counts(models)["min"]
MinCount(ms) ==
    IF ms = <<>> THEN 0
    ELSE CHOOSE c \in {Get(fs[m]) : m \in Range(ms)} :
            \A m \in Range(ms) : c <= Get(fs[m])

\* json.load of a model's conversations.json raises (unreadable or malformed)
Unreadable(m) == IsNone(fs[m])

\* check_conversation_counts and "Determine number of conversations to use";
\* check_conversation_counts opens every model's file outside any try, so an
\* unreadable file ends run_batch_evaluation with the exception
CheckConversationCounts ==
    /\ pc = "discovered"
    /\ IF \E m \in Range(models) : Unreadable(m)
       THEN /\ pc' = "unreadable"
            /\ UNCHANGED <<conv_min, num_conversations, output>>
       ELSE /\ conv_min' = MinCount(models)
            /\ IF IsNone(num_conversations)
               THEN /\ num_conversations' = Some(MinCount(models))
                    /\ output' = output
               ELSE IF Get(num_conversations) > MinCount(models)
                    THEN /\ num_conversations' = Some(MinCount(models))
                         /\ output' = Append(output, "WARNING: Requested more conversations than minimum available")
                    ELSE /\ num_conversations' = num_conversations
                         /\ output' = output
            /\ pc' = "counted"
    /\ UNCHANGED <<fs, dimensions, judge_texts, models, all_pairs, idx,
                   pair_results, failed, sessions, model_aggregate, files,
                   ranking, batch_aggregated, evalVars, aggVars, meanVars>>

\* Steps 2 and 3: all_pairs = list(combinations(models, 2)), batch folder
GeneratePairs ==
    /\ pc = "counted"
    /\ all_pairs' = Combinations(models)
    /\ pc' = "paired"
    /\ UNCHANGED <<envVars, models, conv_min, idx, pair_results, failed,
                   sessions, model_aggregate, files, ranking, output,
                   batch_aggregated, evalVars, aggVars, meanVars>>

\* Step 4: LLMEvaluator(...) is built, or raises and the function returns
InitEvaluator ==
    /\ pc = "paired"
    /\ \/ pc' = "loop" /\ idx' = 1
       \/ pc' = "returned" /\ idx' = idx
    /\ UNCHANGED <<envVars, models, conv_min, all_pairs, pair_results, failed,
                   sessions, model_aggregate, files, ranking, output,
                   batch_aggregated, evalVars, aggVars, meanVars>>

\* the session folder of a pair of the batch: run_evaluation is called with
\* conv_path1 = the first model's file and conv_path2 = the second model's,
\* which it records in the metadata's input_files, and conversations_a is
\* loaded from conv_path1, conversations_b from conv_path2
PairSession(pair, run) ==
    [input_files |-> [conversation_path_1 |-> pair[1],
                      conversation_path_2 |-> pair[2]],
     status |-> run.session.status, logs |-> run.session.logs,
     aggregated |-> run.session.aggregated,
     csv |-> run.session.csv, chart |-> run.session.chart]

\* Faulty variant of PairResult: the two labels exchanged.
PairResultSwapped(i, pair, run) ==
    [pair_index |-> i, model1 |-> Label(pair[2]), model2 |-> Label(pair[1]),
     results |-> Get(run.session.aggregated)]

\* the pair_result stored for a pair whose run_evaluation returned; results
\* is aggregated["dimensions"] read back from aggregated_results.json (the
\* JSON text of a float reads back as the same float)
PairResult(i, pair, run) ==
    [pair_index |-> i, model1 |-> Label(pair[1]), model2 |-> Label(pair[2]),
     results |-> Get(run.session.aggregated)]

\* Faulty variant of AfterPair (the append moved to a finally clause): a pair
\* whose evaluation raised is appended with empty results.
AfterPairAlways(results, i, pair, run) ==
    Append(results,
           [pair_index |-> i, model1 |-> Label(pair[1]), model2 |-> Label(pair[2]),
            results |-> IF run.raised THEN [d \in {} |-> Zero]
                        ELSE Get(run.session.aggregated)])

\* pair_results after the loop body for a pair: appended to on success only
AfterPair(results, i, pair, run) ==
    IF run.raised THEN results ELSE Append(results, PairResult(i, pair, run))

\* the loop position after the body for a pair, whatever its outcome
NextPair(i, run) == i + 1

\* Step 5, one pass of the loop: run_evaluation for all_pairs[idx] inside
\* try/except Exception, the pair_result appended when it returns
EvaluatePair ==
    /\ pc = "loop"
    /\ idx <= Len(all_pairs)
    /\ LET pair == all_pairs[idx]
           dims == Get(dimensions)
           la == Get(fs[pair[1]])
           lb == Get(fs[pair[2]])
           n == CellCount(NumPairs(la, lb, num_conversations), dims)
       IN  \E replies \in [JudgeCells(n, dims) -> Replies(judge_texts)],
              io_ok \in BOOLEAN :
              LET run == RunEvaluation(la, lb, dims, num_conversations, replies, io_ok)
              IN  /\ sessions' = [i \in (DOMAIN sessions) \cup {idx} |->
                                     IF i = idx THEN PairSession(pair, run)
                                     ELSE sessions[i]]
                  /\ output' = output \o run.warnings
                  /\ pair_results' = AfterPair(pair_results, idx, pair, run)
                  /\ failed' = IF run.raised THEN failed \cup {idx} ELSE failed
                  /\ idx' = NextPair(idx, run)
    /\ UNCHANGED <<envVars, pc, models, conv_min, all_pairs, model_aggregate,
                   files, ranking, batch_aggregated, evalVars, aggVars, meanVars>>

\* Step 6: model_aggregate = aggregate_model_scores(pair_results, models)
Aggregate ==
    /\ pc = "loop"
    /\ idx > Len(all_pairs)
    /\ model_aggregate' = Some(AggregateModelScores(pair_results, models))
    /\ pc' = "aggregated"
    /\ UNCHANGED <<envVars, models, conv_min, all_pairs, idx, pair_results,
                   failed, sessions, files, ranking, output, batch_aggregated,
                   evalVars, aggVars, meanVars>>

\* batch_results.json
SaveBatchResults ==
    /\ pc = "aggregated"
    /\ files' = files \cup {"batch_results.json"}
    /\ pc' = "saved"
    /\ UNCHANGED <<envVars, models, conv_min, all_pairs, idx, pair_results,
                   failed, sessions, model_aggregate, ranking, output,
                   batch_aggregated, evalVars, aggVars, meanVars>>

\* model_average_scores.csv: the columns are the dimensions of the first
\* model of model_aggregate, and data["dimensions"][dim] of a model without
\* one of them is a KeyError
CsvKeyError(agg, ms) ==
    /\ ms # <<>>
    /\ \E m \in Range(ms) :
          \E d \in DOMAIN agg[Label(ms[1])].dimensions :
             d \notin DOMAIN agg[Label(m)].dimensions

SaveCsv ==
    /\ pc = "saved"
    /\ IF CsvKeyError(Get(model_aggregate), models)
       THEN pc' = "crashed" /\ files' = files
       ELSE pc' = "csv" /\ files' = files \cup {"model_average_scores.csv"}
    /\ UNCHANGED <<envVars, models, conv_min, all_pairs, idx, pair_results,
                   failed, sessions, model_aggregate, ranking, output,
                   batch_aggregated, evalVars, aggVars, meanVars>>

\* Faulty variant of BatchModelScores: every model is listed, with 0 for a
\* dimension it has no aggregate for.
BatchModelScoresDefaulted(agg, dimension) ==
    [l \in DOMAIN agg |->
        IF dimension \in DOMAIN agg[l].dimensions
        THEN agg[l].dimensions[dimension] ELSE Zero]

\* generate_batch_aggregated_results: model_scores of one dimension holds the
\* models whose aggregate has the dimension
BatchModelScores(agg, dimension) ==
    [l \in {x \in DOMAIN agg : dimension \in DOMAIN agg[x].dimensions} |->
        agg[l].dimensions[dimension]]

\* the values of a dict in the order of the model labels
ValuesOf(scores, ms) ==
    LET labels == [i \in DOMAIN ms |-> Label(ms[i])]
        kept == SelectSeq(labels, LAMBDA l : l \in DOMAIN scores)
    IN  [i \in DOMAIN kept |-> scores[kept[i]]]

\* the document written to the batch's aggregated_results.json
BatchAggregated(agg, dims, ms) ==
    [d \in Range(dims) |->
        [model_scores |-> BatchModelScores(agg, d),
         average |-> Mean(ValuesOf(BatchModelScores(agg, d), ms))]]

\* generate_batch_aggregated_results: aggregated_results.json, then the CSV
\* and the chart
GenerateAggregated ==
    /\ pc = "csv"
    /\ files' = files \cup {"aggregated_results.json", "aggregated_results.csv",
                            "evaluation_chart.png"}
    /\ batch_aggregated' =
          Some(BatchAggregated(Get(model_aggregate), Get(dimensions), models))
    /\ pc' = "reported"
    /\ UNCHANGED <<envVars, models, conv_min, all_pairs, idx, pair_results,
                   failed, sessions, model_aggregate, ranking, output,
                   evalVars, aggVars, meanVars>>

\* Step 7: the ranking by overall average
Summary ==
    /\ pc = "reported"
    /\ ranking' = SortedModels(Get(model_aggregate), models)
    /\ pc' = "done"
    /\ UNCHANGED <<envVars, models, conv_min, all_pairs, idx, pair_results,
                   failed, sessions, model_aggregate, files, output,
                   batch_aggregated, evalVars, aggVars, meanVars>>

(***************************************************************************)
(* LLMEvaluator.run_evaluation, step by step.                              *)
(***************************************************************************)
\* the dimension lists a single evaluation is asked for
EvalDimensionChoices ==
    {<<"believability">>, <<"believability", "empathy">>,
     <<"believability", UnknownDimension>>, <<UnknownDimension, "believability">>}

\* the reply texts of the judge in a single evaluation: no object, an object
\* with two different scores, an object with one score missing
EvalTexts(scores) ==
    {<<Prose>>}
    \cup {<<Obj(Some(p[1]), Some(p[2]))>> :
              p \in {q \in scores \X scores : q[1] # q[2]}}
    \cup {<<Obj(Some(LowScore(scores)), None)>>, <<Obj(None, Some(LowScore(scores)))>>}

\* Steps 1 to 3: load both files, fix num_pairs, create the session folder
\* and save the metadata with status "in_progress"
EvLoad ==
    /\ ev_pc = "start"
    /\ num_pairs' = NumPairs(conv_len[1], conv_len[2], num_conversations)
    /\ output' = output \o ClampWarning(conv_len[1], conv_len[2], num_conversations)
    /\ session' = Some(NewSession)
    /\ ev' = NoCells
    /\ ev_pc' = "loop"
    /\ UNCHANGED <<envVars, pc, models, conv_min, all_pairs, idx, pair_results,
                   failed, sessions, model_aggregate, files, batch_aggregated,
                   ranking, conv_len, aggVars, meanVars>>

\* Step 4, one (conversation index, dimension) cell
EvCell ==
    /\ ev_pc = "loop"
    /\ ev.eval_counter < CellCount(num_pairs, Get(dimensions))
    /\ LET dims == Get(dimensions)
           k == ev.eval_counter + 1
       IN  \E reply \in Replies(judge_texts) :
              LET st == CellStep(ev, CellIndex(k, dims), CellDimension(k, dims), reply)
              IN  /\ ev' = st
                  /\ ev_pc' = IF st.raised THEN "raised" ELSE "loop"
                  /\ output' = IF Len(st.skipped) > Len(ev.skipped)
                               THEN Append(output, "WARNING: No prompt template found")
                               ELSE output
    /\ UNCHANGED <<envVars, pc, models, conv_min, all_pairs, idx, pair_results,
                   failed, sessions, model_aggregate, files, batch_aggregated,
                   ranking, conv_len, num_pairs, session, aggVars, meanVars>>

\* Step 5: save_all_logs writes evaluation_logs.json, or the write raises
EvSaveLogs ==
    /\ ev_pc = "loop"
    /\ ev.eval_counter >= CellCount(num_pairs, Get(dimensions))
    /\ \/ /\ session' = Some([Get(session) EXCEPT !.logs = Some(ev.all_results)])
          /\ ev_pc' = "logged"
       \/ /\ session' = session
          /\ ev_pc' = "raised"
    /\ UNCHANGED <<envVars, batchVars, conv_len, num_pairs, ev, aggVars, meanVars>>

\* Step 6: aggregate_results, written to aggregated_results.json, or the
\* write raises
EvAggregate ==
    /\ ev_pc = "logged"
    /\ \/ /\ session' = Some([Get(session) EXCEPT
                                !.aggregated = Some(AggregateResults(ev.all_results))])
          /\ ev_pc' = "aggregated"
       \/ /\ session' = session
          /\ ev_pc' = "raised"
    /\ UNCHANGED <<envVars, batchVars, conv_len, num_pairs, ev, aggVars, meanVars>>

\* Steps 7 and 8: the CSV report and the chart, or one of the two raises
EvReport ==
    /\ ev_pc = "aggregated"
    /\ \/ /\ session' = Some([Get(session) EXCEPT !.csv = TRUE, !.chart = TRUE])
          /\ ev_pc' = "reported"
       \/ /\ session' = session
          /\ ev_pc' = "raised"
       \/ /\ session' = Some([Get(session) EXCEPT !.csv = TRUE])
          /\ ev_pc' = "raised"
    /\ UNCHANGED <<envVars, batchVars, conv_len, num_pairs, ev, aggVars, meanVars>>

\* Step 9: metadata status "completed", return session_dir
EvComplete ==
    /\ ev_pc = "reported"
    /\ session' = Some([Get(session) EXCEPT !.status = "completed"])
    /\ ev_pc' = "returned"
    /\ UNCHANGED <<envVars, batchVars, conv_len, num_pairs, ev, aggVars, meanVars>>

(***************************************************************************)
(* aggregate_model_scores, step by step.                                   *)
(***************************************************************************)
\* one pass of "for pair_result in pair_results"
AggCollect ==
    /\ agg_pc = "collect"
    /\ agg_i <= Len(agg_input)
    /\ model_scores' = CollectPair(model_scores, agg_input[agg_i])
    /\ agg_i' = agg_i + 1
    /\ UNCHANGED <<envVars, batchVars, evalVars, agg_pc, agg_models, agg_input,
                   meanVars>>

\* "Calculate averages" for every model, and return
AggCalc ==
    /\ agg_pc = "collect"
    /\ agg_i > Len(agg_input)
    /\ model_scores' = [l \in DOMAIN model_scores |-> CalcAverages(model_scores[l])]
    /\ agg_pc' = "returned"
    /\ UNCHANGED <<envVars, batchVars, evalVars, agg_models, agg_input, agg_i,
                   meanVars>>

(***************************************************************************)
(* Initial states and specifications.                                      *)
(***************************************************************************)
BatchIdle ==
    /\ pc = "idle" /\ models = <<>> /\ conv_min = 0 /\ all_pairs = <<>>
    /\ idx = 0 /\ pair_results = <<>> /\ failed = {} /\ sessions = <<>>
    /\ model_aggregate = None /\ files = {} /\ ranking = <<>>
    /\ batch_aggregated = None

EvalIdle ==
    /\ ev_pc = "idle" /\ conv_len = <<0, 0>> /\ num_pairs = 0
    /\ ev = NoCells /\ session = None

AggIdle ==
    /\ agg_pc = "idle" /\ agg_models = <<>> /\ agg_input = <<>>
    /\ agg_i = 0 /\ model_scores = <<>>

MeanIdle ==
    /\ mean_pc = "idle" /\ mean_cells = <<>> /\ mean_pairs = <<>>
    /\ mean_result = None

BatchStart ==
    /\ pc = "start" /\ models = <<>> /\ conv_min = 0 /\ all_pairs = <<>>
    /\ idx = 0 /\ pair_results = <<>> /\ failed = {} /\ sessions = <<>>
    /\ model_aggregate = None /\ files = {} /\ ranking = <<>>
    /\ batch_aggregated = None
    /\ output = <<>>

\* the conversation files a base path may hold: each with some number of
\* conversations, or unreadable
FileSystems ==
    UNION {[D -> {None} \cup {Some(n) : n \in 0..MaxBatchConvs}] : D \in SUBSET ModelPool}

\* run_batch_evaluation is called on some base path with some arguments
Init ==
    /\ fs \in FileSystems
    /\ dimensions \in {Some(d) : d \in BatchDimensionChoices}
    /\ num_conversations \in {None} \cup {Some(n) : n \in 0..(MaxBatchConvs + 1)}
    /\ judge_texts = BatchTexts(MinScore..MaxScore)
    /\ BatchStart /\ EvalIdle /\ AggIdle /\ MeanIdle

Next ==
    \/ Discover
    \/ CheckConversationCounts
    \/ GeneratePairs
    \/ InitEvaluator
    \/ EvaluatePair
    \/ Aggregate
    \/ SaveBatchResults
    \/ SaveCsv
    \/ GenerateAggregated
    \/ Summary

Spec == Init /\ [][Next]_vars

\* the scores of the three-system scenario of the specification
ScenarioScores == {4, 5, 6, 7, 8}

\* run_batch_evaluation on three systems with one conversation each, asked
\* for believability, the judge scoring within the scenario's scores
InitScenario ==
    /\ fs = [m \in ModelPool |-> Some(1)]
    /\ dimensions = Some(<<"believability">>)
    /\ num_conversations = None
    /\ judge_texts = BatchTexts(ScenarioScores)
    /\ BatchStart /\ EvalIdle /\ AggIdle /\ MeanIdle

SpecScenario == InitScenario /\ [][Next]_vars

\* run_evaluation is called on two conversation files with some arguments
InitEval ==
    /\ fs = <<>>
    /\ dimensions \in {Some(d) : d \in EvalDimensionChoices}
    /\ num_conversations \in {None} \cup {Some(n) : n \in 0..(MaxConvs + 1)}
    /\ judge_texts = EvalTexts(MinScore..MaxScore)
    /\ conv_len \in (0..MaxConvs) \X (0..MaxConvs)
    /\ ev_pc = "start" /\ num_pairs = 0 /\ ev = NoCells /\ session = None
    /\ output = <<>>
    /\ BatchIdle /\ AggIdle /\ MeanIdle

NextEval ==
    \/ EvLoad
    \/ EvCell
    \/ EvSaveLogs
    \/ EvAggregate
    \/ EvReport
    \/ EvComplete

SpecEval == InitEval /\ [][NextEval]_vars

\* the tokens of the judge replies that explore the parser: prose, stray
\* braces and two different objects
ParseTokens ==
    {Prose, LBrace, RBrace,
     Obj(Some(MinScore), Some(MaxScore)), Obj(Some(MaxScore), Some(MinScore))}

\* every reply text of at most MaxTextLen tokens
ParseTexts == UNION {[1..n -> ParseTokens] : n \in 0..MaxTextLen}

\* one run_evaluation over two conversation pairs and one dimension, the
\* judge answering with any of these texts
InitParse ==
    /\ fs = <<>>
    /\ dimensions = Some(<<"believability">>)
    /\ num_conversations = None
    /\ judge_texts = ParseTexts
    /\ conv_len = <<2, 2>>
    /\ ev_pc = "start" /\ num_pairs = 0 /\ ev = NoCells /\ session = None
    /\ output = <<>>
    /\ BatchIdle /\ AggIdle /\ MeanIdle

SpecParse == InitParse /\ [][NextEval]_vars

\* the dimensions of the pair results handed to aggregate_model_scores
AggDimensions == {"believability", "empathy"}

MoreAggDimensions == {"believability", "empathy", "appropriateness"}

\* a pair's summary of one dimension, as aggregate_results writes it for one
\* cell with both scores
Summaries(scores) ==
    {[path_1_average |-> FromInt(a), path_2_average |-> FromInt(b),
      num_evaluations |-> 1] : a, b \in scores}

\* the same with the right side held at the lowest score
LeftSummaries(scores) ==
    {r \in Summaries(scores) : r.path_2_average = FromInt(LowScore(scores))}

\* the "results" of one pair: any of the dimensions, each with a summary
ResultsInputs(dims, summaries) ==
    UNION {[D -> summaries] : D \in SUBSET dims}

\* the pair results of the pairs chosen by pick (a pair that failed has no
\* pick, or None), in the order of the pairs
RECURSIVE PickedResults(_, _, _)
PickedResults(pairs, pick, i) ==
    IF i > Len(pairs) THEN <<>>
    ELSE (IF i \notin DOMAIN pick \/ IsNone(pick[i]) THEN <<>>
          ELSE <<[pair_index |-> i, model1 |-> Label(pairs[i][1]),
                  model2 |-> Label(pairs[i][2]), results |-> Get(pick[i])]>>)
         \o PickedResults(pairs, pick, i + 1)

AggModels == <<Model("baseline", "A"), Model("baseline", "B"), Model("ours", "C")>>

\* the pair_results arguments: any of the three pairs with results over two
\* dimensions, or the two pairs of the first model with results over three
\* dimensions whose left sides vary
AggInputs(scores) ==
    LET pairs == Combinations(AggModels)
        opt(R) == {None} \cup {Some(r) : r \in R}
    IN  {PickedResults(pairs, pick, 1) :
            pick \in [1..Len(pairs)
                      -> opt(ResultsInputs(AggDimensions, Summaries(scores)))]}
        \cup
        {PickedResults(pairs, pick, 1) :
            pick \in [1..(Len(pairs) - 1)
                      -> opt(ResultsInputs(MoreAggDimensions, LeftSummaries(scores)))]}

\* aggregate_model_scores is called on the results of the pairs that succeeded
InitAgg ==
    /\ fs = <<>> /\ dimensions = None /\ num_conversations = None
    /\ judge_texts = {}
    /\ agg_models = AggModels
    /\ agg_input \in AggInputs(MinScore..MaxScore)
    /\ agg_i = 1
    /\ model_scores = InitModelScores(AggModels)
    /\ agg_pc = "collect"
    /\ output = <<>>
    /\ BatchIdle /\ EvalIdle /\ MeanIdle

NextAgg ==
    \/ AggCollect
    \/ AggCalc

SpecAgg == InitAgg /\ [][NextAgg]_vars

(***************************************************************************)
(* Properties of the pair list (C1).                                       *)
(***************************************************************************)
PairsBuilt == pc \notin {"idle", "start", "discovered", "unreadable", "counted"}

\* C1: for n >= 2 discovered systems run_batch_evaluation builds exactly
\* n(n-1)/2 pairs, the two members of every pair are distinct systems, and no
\* unordered pair appears twice.
C1_PairsAreCombinations ==
    (PairsBuilt /\ Len(models) >= 2) =>
        /\ 2 * Len(all_pairs) = Len(models) * (Len(models) - 1)
        /\ \A i \in DOMAIN all_pairs :
              /\ all_pairs[i][1] # all_pairs[i][2]
              /\ Label(all_pairs[i][1]) # Label(all_pairs[i][2])
        /\ \A i, j \in DOMAIN all_pairs :
              i # j => {all_pairs[i][1], all_pairs[i][2]}
                       # {all_pairs[j][1], all_pairs[j][2]}

\* three systems discovered and their three pairs built
C1_Witness ==
    /\ pc = "paired" /\ Len(models) = 3 /\ Len(all_pairs) = 3

(***************************************************************************)
(* Properties of aggregate_model_scores (C2, C4, C5, C6), stated on its    *)
(* argument agg_input and its return value model_scores.                   *)
(***************************************************************************)
AggReturned == agg_pc = "returned"

\* the values a system is entitled to for a dimension: path_1_average of the
\* pairs where it is model1, path_2_average of the pairs where it is model2,
\* of the pairs whose results have the dimension
RECURSIVE LeftValues(_, _, _)
LeftValues(prs, l, d) ==
    IF prs = <<>> THEN <<>>
    ELSE (IF prs[1].model1 = l /\ d \in DOMAIN prs[1].results
          THEN <<prs[1].results[d].path_1_average>> ELSE <<>>)
         \o LeftValues(Tail(prs), l, d)

RECURSIVE RightValues(_, _, _)
RightValues(prs, l, d) ==
    IF prs = <<>> THEN <<>>
    ELSE (IF prs[1].model2 = l /\ d \in DOMAIN prs[1].results
          THEN <<prs[1].results[d].path_2_average>> ELSE <<>>)
         \o RightValues(Tail(prs), l, d)

SideValues(prs, l, d) == LeftValues(prs, l, d) \o RightValues(prs, l, d)

\* m is the arithmetic mean of the non-empty list vals
IsMeanOf(m, vals) ==
    m[1] * RatSum(vals)[2] * Len(vals) = RatSum(vals)[1] * m[2]

\* C2: for every system and dimension the aggregate is the mean of
\* path_1_average over the pairs where the system is model1 and
\* path_2_average over the pairs where it is model2, and of nothing else; a
\* dimension without such a value has no aggregate.
C2_AggregateIsSideMean ==
    AggReturned =>
        \A l \in DOMAIN model_scores : \A d \in MoreAggDimensions :
            LET vals == SideValues(agg_input, l, d)
            IN  /\ (d \in DOMAIN model_scores[l].dimensions) <=> (vals # <<>>)
                /\ vals # <<>> => IsMeanOf(model_scores[l].dimensions[d], vals)

\* B is model2 of (A, B) and model1 of (B, C), and the two sides of each of
\* these pairs differ
C2_Witness ==
    /\ AggReturned
    /\ Len(agg_input) = 3
    /\ \A i \in {1, 3} :
          /\ "believability" \in DOMAIN agg_input[i].results
          /\ agg_input[i].results["believability"].path_1_average
             # agg_input[i].results["believability"].path_2_average
    /\ LeftValues(agg_input, "baseline/B", "believability") = <<FromInt(MaxScore)>>
    /\ RightValues(agg_input, "baseline/B", "believability") = <<FromInt(MinScore)>>

\* agg_input in the order p, a permutation of its indices
Permuted(p) == [i \in DOMAIN agg_input |-> agg_input[p[i]]]

SameValues(s, t) ==
    /\ Len(s) = Len(t)
    /\ \A v \in Range(s) \cup Range(t) :
          Cardinality({i \in DOMAIN s : s[i] = v})
          = Cardinality({i \in DOMAIN t : t[i] = v})

AlwaysLeft(l) ==
    /\ \E i \in DOMAIN agg_input : agg_input[i].model1 = l
    /\ \A i \in DOMAIN agg_input : agg_input[i].model2 # l

AlwaysRight(l) ==
    /\ \E i \in DOMAIN agg_input : agg_input[i].model2 = l
    /\ \A i \in DOMAIN agg_input : agg_input[i].model1 # l

MatchedIn(L, R, d) ==
    SameValues(LeftValues(agg_input, L, d), RightValues(agg_input, R, d))

AllSideValues(l) ==
    Concat([i \in DOMAIN AvailableDimensions |->
              SideValues(agg_input, l, AvailableDimensions[i])])

\* the mean of the per-dimension aggregates of a system
MeanOfAggregates(l) ==
    Mean(AllScores([d \in DOMAIN model_scores[l].dimensions |->
                      <<model_scores[l].dimensions[d]>>], DimOrder))

\* overall_average is the mean of all the values of all dimensions together
OverallIsPooledMean ==
    \A l \in DOMAIN model_scores :
        IF AllSideValues(l) = <<>>
        THEN model_scores[l].overall_average = Zero
        ELSE IsMeanOf(model_scores[l].overall_average, AllSideValues(l))

\* two of the dimensions of l differ in their number of values, and two in
\* their means
CountsAndMeansDiffer(l) ==
    LET D == DOMAIN model_scores[l].dimensions
    IN  /\ \E d, e \in D : Len(SideValues(agg_input, l, d))
                          # Len(SideValues(agg_input, l, e))
        /\ \E d, e \in D : model_scores[l].dimensions[d]
                          # model_scores[l].dimensions[e]

BelievabilityIs(i, a, b) ==
    /\ "believability" \in DOMAIN pair_results[i].results
    /\ pair_results[i].results["believability"].path_1_average = FromInt(a)
    /\ pair_results[i].results["believability"].path_2_average = FromInt(b)

\* systems A, B, C in this order, all three pairs evaluated, with the
\* believability summaries (7, 5), (6, 6) and (4, 8), and the batch finished
ScenarioRun ==
    /\ pc = "done"
    /\ models = <<Model("baseline", "A"), Model("baseline", "B"), Model("ours", "C")>>
    /\ Len(pair_results) = 3
    /\ BelievabilityIs(1, 7, 5)
    /\ BelievabilityIs(2, 6, 6)
    /\ BelievabilityIs(3, 4, 8)

\* C3: with the pairs (A, B), (A, C), (B, C) and the believability summaries
\* (7, 5), (6, 6), (4, 8) the aggregates are A = 6.5, B = 4.5, C = 7.0, and
\* the ranking by overall average is C, A, B.
C3_WorkedExample ==
    ScenarioRun =>
        /\ Get(model_aggregate)["baseline/A"].dimensions["believability"] = <<13, 2>>
        /\ Get(model_aggregate)["baseline/B"].dimensions["believability"] = <<9, 2>>
        /\ Get(model_aggregate)["ours/C"].dimensions["believability"] = <<7, 1>>
        /\ ranking = <<"ours/C", "baseline/A", "baseline/B">>

\* the run of the example, with the pairs in the order (A, B), (A, C), (B, C)
C3_Witness ==
    /\ ScenarioRun
    /\ [i \in 1..3 |-> <<pair_results[i].model1, pair_results[i].model2>>]
       = << <<"baseline/A", "baseline/B">>, <<"baseline/A", "ours/C">>,
            <<"baseline/B", "ours/C">> >>
    /\ failed = {}

(***************************************************************************)
(* Properties of one pair's evaluation loop (C7, C8).                      *)
(***************************************************************************)
\* a judge call of this evaluation raised a transport error
JudgeCallFailed == ev_pc # "idle" /\ ev.raised

\* run_evaluation is over: it returned, or an exception left it
EvalOver == ev_pc \in {"returned", "raised"}

\* C7 as stated: a transport error of a judge call drops only that cell;
\* run_evaluation is not left by the exception, it goes on with the
\* remaining cells, and once it is over the pair has its log and its summary.
C7_TransportErrorDropsOneCell ==
    JudgeCallFailed =>
        /\ ev_pc # "raised"
        /\ EvalOver => /\ ~IsNone(Get(session).logs)
                       /\ ~IsNone(Get(session).aggregated)

\* C8 as stated: once run_evaluation is over, the cells in the pair's log are
\* at most k * d, and exactly k * d minus the failed judge calls minus the
\* cells skipped for an unknown dimension.
C8_LogCellCount ==
    (EvalOver /\ ~IsNone(session)) =>
        LET kd == CellCount(num_pairs, Get(dimensions))
            failures == IF ev.raised THEN 1 ELSE 0
        IN  /\ Len(ev.all_results) <= kd
            /\ Len(ev.all_results) = kd - failures - Len(ev.skipped)

(***************************************************************************)
(* Properties of the batch loop and of what it hands on (C9, C10).         *)
(***************************************************************************)
\* the logged cells of dimension d of the i-th pair result
CellsOf(i, d) ==
    LET log == Get(sessions[pair_results[i].pair_index].logs)
    IN  {k \in DOMAIN log : log[k].dimension = d}

\* every judge reply of dimension d of the i-th pair result failed to parse
AllUnparseable(i, d) ==
    LET log == Get(sessions[pair_results[i].pair_index].logs)
    IN  /\ CellsOf(i, d) # {}
        /\ \A k \in CellsOf(i, d) : log[k].llm_response.parsing_error

\* the list of values collected for system l and dimension d from prs
ListOf(prs, l, d) ==
    LET c == CollectScores(InitModelScores(models), prs)[l].dimensions
    IN  IF d \in DOMAIN c THEN c[d] ELSE <<>>

\* pair_results without its i-th entry
Without(i) ==
    SubSeq(pair_results, 1, i - 1) \o SubSeq(pair_results, i + 1, Len(pair_results))

\* C9 as stated: when every judge reply of a pair for a dimension fails to
\* parse, the pair's summary shows zero contributing cells for the dimension
\* and neither system of the pair receives a value for it from that pair.
C9_UnparseableContributesNothing ==
    ~IsNone(model_aggregate) =>
        \A i \in DOMAIN pair_results : \A d \in DOMAIN pair_results[i].results :
            AllUnparseable(i, d) =>
                /\ pair_results[i].results[d].num_evaluations = 0
                /\ \A l \in {pair_results[i].model1, pair_results[i].model2} :
                      ListOf(pair_results, l, d) = ListOf(Without(i), l, d)

\* run_evaluation raised for the pair at position i of all_pairs
PairRaised(i, ss) == ss[i].status # "completed"

\* C10: a pair whose evaluation raises is not appended to pair_results, the
\* loop goes on to the next pair and is left only after the last one, and
\* the results of earlier pairs stay as they are.
C10_Step ==
    /\ Len(pair_results') >= Len(pair_results)
    /\ SubSeq(pair_results', 1, Len(pair_results)) = pair_results
    /\ (pc = "loop" /\ pc' # "loop") => idx > Len(all_pairs)
    /\ (pc = "loop" /\ idx <= Len(all_pairs)) =>
          /\ pc' = "loop" /\ idx' = idx + 1
          /\ idx \in DOMAIN sessions'
          /\ PairRaised(idx, sessions') => pair_results' = pair_results
          /\ ~PairRaised(idx, sessions') =>
                /\ Len(pair_results') = Len(pair_results) + 1
                /\ pair_results'[Len(pair_results')].pair_index = idx
    /\ (IsNone(model_aggregate) /\ ~IsNone(model_aggregate')) =>
          \A l \in DOMAIN Get(model_aggregate') :
              Get(model_aggregate')[l].num_comparisons
              = Cardinality({i \in DOMAIN pair_results :
                               l \in {pair_results[i].model1, pair_results[i].model2}})

C10_FailedPairIsolated == [][C10_Step]_vars

\* of three pairs the second raised, the first and the third were evaluated
\* and appended, and the aggregation ran
C10_Witness ==
    /\ pc = "aggregated"
    /\ Len(all_pairs) = 3
    /\ DOMAIN sessions = {1, 2, 3}
    /\ ~PairRaised(1, sessions) /\ PairRaised(2, sessions) /\ ~PairRaised(3, sessions)
    /\ Len(pair_results) = 2
    /\ pair_results[1].pair_index = 1 /\ pair_results[2].pair_index = 3

(***************************************************************************)
(* Systems without a contribution, and too few systems (C11, C15, C16).    *)
(***************************************************************************)
\* no successfully evaluated pair gives system l a value for dimension d
NoContribution(l, d) == SideValues(pair_results, l, d) = <<>>

\* C11 as stated: a system with no contributing pair for a dimension has no
\* entry for it in its aggregate nor in the dimension's model_scores mapping
\* of the aggregate document, and its overall average is not reported as 0
\* in the ranking (stated for runs of two systems or more).
C11_NoDefaultZero ==
    (pc = "done" /\ Len(models) >= 2) =>
        LET agg == Get(model_aggregate)
            doc == BatchAggregated(agg, Get(dimensions), models)
        IN  \A l \in DOMAIN agg : \A d \in Range(Get(dimensions)) :
                NoContribution(l, d) =>
                    /\ d \notin DOMAIN agg[l].dimensions
                    /\ l \notin DOMAIN doc[d].model_scores
                    /\ ~(l \in Range(ranking) /\ agg[l].overall_average = Zero)

(***************************************************************************)
(* The conversation indices one evaluation visits (C12).                   *)
(***************************************************************************)
Smaller(x, y) == IF x < y THEN x ELSE y

\* k of the claim: min(a, b) without a cap, min(a, b, m) with the cap m
ExpectedPairs ==
    IF IsNone(num_conversations) THEN Smaller(conv_len[1], conv_len[2])
    ELSE Smaller(Smaller(conv_len[1], conv_len[2]), Get(num_conversations))

\* the loop of run_evaluation has run to its end
LoopDone ==
    /\ ev_pc \in {"logged", "aggregated", "reported", "returned", "raised"}
    /\ ~ev.raised

\* C12: run_evaluation visits the conversation indices 0..k-1, with
\* k = min(a, b) without a cap and k = min(a, b, m) with the cap m: no judge
\* call, logged cell or skipped cell has an index outside 0..k-1, both sides
\* of a call have the same index, and a loop that runs to its end has
\* visited every index 0..k-1 with every dimension.
C12_IndicesBelowCap ==
    ev_pc \notin {"idle", "start"} =>
        LET k == ExpectedPairs
            d == Len(Get(dimensions))
        IN  /\ num_pairs = k
            /\ \A i \in DOMAIN ev.judge_calls :
                  /\ ev.judge_calls[i].a \in 0..(k - 1)
                  /\ ev.judge_calls[i].b = ev.judge_calls[i].a
            /\ \A i \in DOMAIN ev.all_results :
                  ev.all_results[i].pair_index \in 0..(k - 1)
            /\ \A i \in DOMAIN ev.skipped :
                  (ev.skipped[i] - 1) \div d \in 0..(k - 1)
            /\ LoopDone =>
                  /\ ev.eval_counter = (IF k < 0 THEN 0 ELSE k) * d
                  /\ \A n \in 0..(k - 1) : \A j \in 1..d :
                        \/ /\ Get(dimensions)[j] \in PromptTemplates
                           /\ \E i \in DOMAIN ev.judge_calls :
                                 /\ ev.judge_calls[i].a = n
                                 /\ ev.judge_calls[i].dimension = Get(dimensions)[j]
                        \/ /\ Get(dimensions)[j] \notin PromptTemplates
                           /\ \E i \in DOMAIN ev.skipped :
                                 ev.skipped[i] = n * d + j

\* two sources of two conversations, the cap 1: one index is evaluated
C12_Witness ==
    /\ ev_pc = "returned"
    /\ conv_len = <<MaxConvs, MaxConvs>>
    /\ num_conversations = Some(MaxConvs - 1)
    /\ Len(ev.judge_calls) = (MaxConvs - 1) * Len(Get(dimensions))
    /\ Len(Get(dimensions)) = 2

(***************************************************************************)
(* Clamping of the requested number of conversations (C13): batch runs    *)
(* and single evaluations side by side.                                    *)
(***************************************************************************)
\* the lengths of the two files of a single evaluation, the short ones and
\* two longer ones
ClampLengths == (0..MaxConvs) \cup {7, 8}

\* the max_conversations argument of a single evaluation
ClampCaps == {None} \cup {Some(n) : n \in (0..(MaxConvs + 1)) \cup {10}}

\* a batch run whose judge always answers with the same scores
InitClampBatch ==
    /\ fs \in FileSystems
    /\ dimensions \in {Some(d) : d \in BatchDimensionChoices}
    /\ num_conversations \in {None} \cup {Some(n) : n \in 0..(MaxBatchConvs + 1)}
    /\ judge_texts = BatchTexts({MinScore})
    /\ BatchStart /\ EvalIdle /\ AggIdle /\ MeanIdle

\* a single run_evaluation whose only dimension has no template: the judge
\* is never called
InitClampEval ==
    /\ fs = <<>>
    /\ dimensions = Some(<<UnknownDimension>>)
    /\ num_conversations \in ClampCaps
    /\ judge_texts = EvalTexts({MinScore})
    /\ conv_len \in ClampLengths \X ClampLengths
    /\ ev_pc = "start" /\ num_pairs = 0 /\ ev = NoCells /\ session = None
    /\ output = <<>>
    /\ BatchIdle /\ AggIdle /\ MeanIdle

NextClamp ==
    \/ Next
    \/ NextEval

SpecClamp == (InitClampBatch \/ InitClampEval) /\ [][NextClamp]_vars

ClampLines ==
    {"WARNING: Requested more conversations than available",
     "WARNING: Requested more conversations than minimum available"}

RECURSIVE CountClampLines(_)
CountClampLines(out) ==
    IF out = <<>> THEN 0
    ELSE (IF out[Len(out)] \in ClampLines THEN 1 ELSE 0)
         + CountClampLines(SubSeq(out, 1, Len(out) - 1))

\* the conversations every discovered system has
Available(ms) ==
    IF ms = <<>> THEN 0
    ELSE CHOOSE c \in {Get(fs[m]) : m \in Range(ms)} :
            \A m \in Range(ms) : Get(fs[m]) >= c

\* one step; requested is the cap before the step, available the number of
\* conversations there are, effective the count after the step
ClampedBy(requested, available, effective) ==
    IF ~IsNone(requested) /\ Get(requested) > available
    THEN /\ effective = available
         /\ CountClampLines(output') = CountClampLines(output) + 1
         /\ Len(output') = Len(output) + 1
    ELSE /\ effective = (IF IsNone(requested) THEN available ELSE Get(requested))
         /\ CountClampLines(output') = CountClampLines(output)

C13_Step ==
    /\ (ev_pc = "start" /\ ev_pc' # "start") =>
          ClampedBy(num_conversations, Smaller(conv_len[1], conv_len[2]),
                    num_pairs')
    /\ (pc = "discovered" /\ pc' = "counted") =>
          ClampedBy(num_conversations, Available(models),
                    Get(num_conversations'))
    /\ ~(ev_pc = "start" /\ ev_pc' # "start")
          /\ ~(pc = "discovered" /\ pc' = "counted") =>
          CountClampLines(output') = CountClampLines(output)

\* C13: a cap above the conversations available (the shorter file of a
\* single evaluation, the minimum over the discovered systems of a batch) is
\* clamped to the available number with exactly one clamping warning; a cap
\* not above it is kept and no clamping warning is printed, by that step or
\* by any other.  With the cap 10 and the shorter file holding 7 the count
\* is 7, with a warning.
C13_ClampWithWarning == [][C13_Step]_vars

\* cap 10, files of 8 and 7 conversations: 7 pairs and the warning
C13_Witness ==
    /\ ev_pc = "loop"
    /\ num_conversations = Some(10)
    /\ conv_len = <<8, 7>>
    /\ num_pairs = 7
    /\ output = <<"WARNING: Requested more conversations than available">>

\* a batch whose cap is above the minimum: clamped, with the warning
C13_BatchClamped ==
    /\ pc = "counted"
    /\ Len(models) >= 2
    /\ Get(num_conversations) = conv_min
    /\ output = <<"WARNING: Requested more conversations than minimum available">>

(***************************************************************************)
(* A requested dimension without a prompt template (C14).                  *)
(***************************************************************************)
\* the dimension of the cell with the given eval counter
DimensionAt(counter) ==
    Get(dimensions)[((counter - 1) % Len(Get(dimensions))) + 1]

\* the cells visited so far whose dimension has, or has not, a template
VisitedCells(registered) ==
    {c \in 1..ev.eval_counter : (DimensionAt(c) \in PromptTemplates) = registered}

SkipLines ==
    {i \in DOMAIN output : output[i] = "WARNING: No prompt template found"}

\* C14: every cell of a requested dimension without a prompt template is
\* skipped with one warning and without a judge call; nothing is logged for
\* it and the summary has no entry for it (not an entry with the score 0),
\* while each visited cell of a registered dimension has its one judge call
\* and, unless that call raised, its log entry and its summary entry.
C14_UnknownDimensionSkipped ==
    ev_pc \notin {"idle", "start"} =>
        /\ \A i \in DOMAIN ev.judge_calls :
              ev.judge_calls[i].dimension \in PromptTemplates
        /\ \A i \in DOMAIN ev.all_results :
              ev.all_results[i].dimension \in PromptTemplates
        /\ Range(ev.skipped) = VisitedCells(FALSE)
        /\ Len(ev.skipped) = Cardinality(VisitedCells(FALSE))
        /\ Cardinality(SkipLines) = Cardinality(VisitedCells(FALSE))
        /\ Len(ev.judge_calls) = Cardinality(VisitedCells(TRUE))
        /\ \A c \in VisitedCells(TRUE) :
              \/ \E i \in DOMAIN ev.all_results :
                    /\ ev.all_results[i].eval_id = c
                    /\ ev.all_results[i].dimension = DimensionAt(c)
              \/ ev.raised /\ c = ev.eval_counter
        /\ \A i \in DOMAIN ev.all_results :
              ev.all_results[i].eval_id \in VisitedCells(TRUE)
        /\ ~IsNone(Get(session).aggregated) =>
              LET summary == Get(Get(session).aggregated)
              IN  /\ \A d \in DOMAIN summary : d \in PromptTemplates
                  /\ \A c \in VisitedCells(TRUE) : DimensionAt(c) \in DOMAIN summary

\* a finished evaluation of a registered and an unregistered dimension over
\* two conversations: two skipped cells, two logged ones, one summary entry
C14_Witness ==
    /\ ev_pc = "returned"
    /\ Get(dimensions) = <<UnknownDimension, "believability">>
    /\ Len(ev.skipped) = MaxConvs
    /\ Len(ev.all_results) = MaxConvs
    /\ DOMAIN Get(Get(session).aggregated) = {"believability"}

(***************************************************************************)
(* Fewer than two systems (C15) and an unreadable conversation file (C16). *)
(***************************************************************************)
\* the batch has gone on to aggregation or to the writing of its results
PastTheLoop == pc \in {"aggregated", "saved", "csv", "crashed", "reported", "done"}

\* C15 as stated: when fewer than 2 systems are discovered the batch stops
\* before any pair is evaluated and before any batch result is written; it
\* does not go on to aggregation or report writing with an empty pair list.
C15_TooFewSystemsStop ==
    (pc # "start" /\ Len(models) < 2) =>
        /\ ~PastTheLoop
        /\ IsNone(model_aggregate)
        /\ files = {}

\* run_batch_evaluation has returned or has been left by an exception raised
\* outside the loop's try (a failed evaluator set-up apart)
BatchOver == pc \in {"unreadable", "crashed", "done"}

\* the position of the pair of models[i] and models[j] in all_pairs
PairAt(k, i, j) == k \in DOMAIN all_pairs /\ all_pairs[k] = <<models[i], models[j]>>

\* C16 as stated: when the conversation file of a discovered system is
\* unreadable or malformed, the pairs containing that system are marked
\* failed and every pair of two other systems is still evaluated and, when
\* its evaluation returns, aggregated.
C16_OnlyAffectedPairsFail ==
    (BatchOver /\ \E m \in Range(models) : Unreadable(m)) =>
        \A i, j \in DOMAIN models : i < j =>
            \E k \in DOMAIN all_pairs :
                /\ PairAt(k, i, j)
                /\ IF Unreadable(models[i]) \/ Unreadable(models[j])
                   THEN k \in failed
                   ELSE \/ k \in failed
                        \/ \E r \in DOMAIN pair_results :
                              pair_results[r].pair_index = k

(***************************************************************************)
(* Judge texts that do or do not hold a decodable object (C17, C18).       *)
(***************************************************************************)
\* the object at position i is what the parser finds: no opening brace
\* before it and no closing brace after it
FoundAt(text, i) ==
    /\ text[i].type = "obj"
    /\ \A j \in 1..(i - 1) : text[j].type \notin {"obj", "lbrace"}
    /\ \A j \in (i + 1)..Len(text) : text[j].type \notin {"obj", "rbrace"}

Decodable(text) == \E i \in DOMAIN text : FoundAt(text, i)

\* the judge calls that returned a text, by their position
Answered == {i \in DOMAIN ev.judge_calls : ev.judge_calls[i].reply.ok}

\* the log entry of the i-th judge call (every dimension here is registered,
\* so the i-th call is the cell with eval counter i)
Logged(i) == {r \in Range(ev.all_results) : r.eval_id = i}

\* the scores of one side given by the decodable answers, in call order
RECURSIVE DecodedScores(_, _)
DecodedScores(n, side) ==
    IF n = 0 THEN <<>>
    ELSE LET text == ev.judge_calls[n].reply.text
             i == CHOOSE x \in DOMAIN text : FoundAt(text, x)
             rest == DecodedScores(n - 1, side)
         IN  IF n \in Answered /\ Decodable(text)
             THEN Append(rest, FromInt(Get(IF side = "a" THEN text[i].a ELSE text[i].b)))
             ELSE rest

SummaryIs(average, vals) ==
    IF vals = <<>> THEN average = Zero ELSE IsMeanOf(average, vals)

\* C17: a judge text without a decodable object never raises; its cell is
\* logged with the raw text and parsing_error = true and with neither
\* version_a_score nor version_b_score, and the summary's score lists hold
\* the scores of the decodable answers only.
C17_SentinelAddsNothing ==
    ev_pc \notin {"idle", "start"} =>
        /\ \A i \in Answered :
              ~Decodable(ev.judge_calls[i].reply.text) =>
                  /\ ~(ev.raised /\ i = Len(ev.judge_calls))
                  /\ Logged(i) =
                        {LogData(i, ev.judge_calls[i].a, ev.judge_calls[i].dimension,
                                 [parsing_error |-> TRUE,
                                  raw_response |-> Some(ev.judge_calls[i].reply.text),
                                  version_a_score |-> None,
                                  version_b_score |-> None])}
        /\ ev.raised => Len(ev.judge_calls) \notin Answered
        /\ ~IsNone(Get(session).aggregated) =>
              LET summary == Get(Get(session).aggregated)
                  a == DecodedScores(Len(ev.judge_calls), "a")
                  b == DecodedScores(Len(ev.judge_calls), "b")
              IN  \A d \in DOMAIN summary :
                      /\ SummaryIs(summary[d].path_1_average, a)
                      /\ SummaryIs(summary[d].path_2_average, b)
                      /\ summary[d].num_evaluations = Len(a)

\* an opening brace without an object, then a decodable answer: both cells
\* are logged and the summary counts one evaluation
C17_Witness ==
    /\ ev_pc = "returned"
    /\ Len(ev.judge_calls) = 2
    /\ ev.judge_calls[1].reply = Reply(<<LBrace, Prose>>)
    /\ ev.judge_calls[2].reply = Reply(<<Obj(Some(MinScore), Some(MaxScore))>>)
    /\ Len(ev.all_results) = 2
    /\ Get(Get(session).aggregated)["believability"].num_evaluations = 1

\* position i holds the first object of the text, with plain prose before it
FirstObjectAt(text, i) ==
    /\ text[i].type = "obj"
    /\ \A j \in 1..(i - 1) : text[j].type = "prose"

FirstObject(text) == text[CHOOSE i \in DOMAIN text : FirstObjectAt(text, i)]

\* C18 as stated: for a judge text with at least one well-formed object the
\* parser returns the fields of the first such object, whatever follows it
\* (stated for texts with nothing but prose before that object).
C18_FirstObjectReturned ==
    ev_pc \notin {"idle", "start"} =>
        \A i \in Answered :
            LET text == ev.judge_calls[i].reply.text
            IN  (\E j \in DOMAIN text : FirstObjectAt(text, j)) =>
                    \A r \in Logged(i) :
                        /\ r.llm_response.parsing_error = FALSE
                        /\ r.llm_response.version_a_score = FirstObject(text).a
                        /\ r.llm_response.version_b_score = FirstObject(text).b

(***************************************************************************)
(* The summary of one pair (C19).                                          *)
(***************************************************************************)
\* the logged cells of dimension d that have a version_a_score, and those
\* that have a version_b_score
CellsWithA(d) ==
    SelectSeq(ev.all_results,
              LAMBDA r : r.dimension = d /\ ~IsNone(r.llm_response.version_a_score))

CellsWithB(d) ==
    SelectSeq(ev.all_results,
              LAMBDA r : r.dimension = d /\ ~IsNone(r.llm_response.version_b_score))

PresentA(d) ==
    [i \in DOMAIN CellsWithA(d) |->
        FromInt(Get(CellsWithA(d)[i].llm_response.version_a_score))]

PresentB(d) ==
    [i \in DOMAIN CellsWithB(d) |->
        FromInt(Get(CellsWithB(d)[i].llm_response.version_b_score))]

\* C19: in a pair's summary for a dimension, path_1_average is the mean of
\* exactly the version_a_score values present in that dimension's logged
\* cells and path_2_average the mean of exactly the present version_b_score
\* values; a side without a present score has the average 0.
C19_SummaryIsMeanOfPresent ==
    (ev_pc \notin {"idle", "start"} /\ ~IsNone(Get(session).aggregated)) =>
        LET summary == Get(Get(session).aggregated)
        IN  \A d \in DOMAIN summary :
                /\ SummaryIs(summary[d].path_1_average, PresentA(d))
                /\ SummaryIs(summary[d].path_2_average, PresentB(d))

\* two logged cells of one dimension, version_b_score present in neither:
\* path_1_average is a mean of scores, path_2_average is 0
C19_Witness ==
    /\ ev_pc = "returned"
    /\ Len(PresentA("believability")) = 2
    /\ PresentB("believability") = <<>>
    /\ Get(Get(session).aggregated)["believability"].path_1_average # Zero
    /\ Get(Get(session).aggregated)["believability"].path_2_average = Zero

(***************************************************************************)
(* A system's aggregate and the pairs of the other systems (C20).          *)
(***************************************************************************)
\* the summaries whose two sides differ
MixedSummaries(scores) ==
    {r \in Summaries(scores) : r.path_1_average # r.path_2_average}

\* aggregate_model_scores on the results of any of the three pairs, each
\* over any of two dimensions
InitOwnPairs ==
    /\ fs = <<>> /\ dimensions = None /\ num_conversations = None
    /\ judge_texts = {}
    /\ agg_models = AggModels
    /\ agg_input \in
          {PickedResults(Combinations(AggModels), pick, 1) :
              pick \in [1..Len(Combinations(AggModels)) ->
                          {None} \cup
                          {Some(r) : r \in ResultsInputs(AggDimensions,
                                               MixedSummaries(MinScore..MaxScore))}]}
    /\ agg_i = 1
    /\ model_scores = InitModelScores(AggModels)
    /\ agg_pc = "collect"
    /\ output = <<>>
    /\ BatchIdle /\ EvalIdle /\ MeanIdle

SpecOwnPairs == InitOwnPairs /\ [][NextAgg]_vars

\* the pair results that contain system l
PairsOf(prs, l) == SelectSeq(prs, LAMBDA r : r.model1 = l \/ r.model2 = l)

\* the results a pair may have given in another run
OtherResults == ResultsInputs(AggDimensions, Summaries(MinScore..MaxScore))

\* the pair results of another run for the pairs without system l: none (the
\* pair failed), or any of these results
OtherOutcomes(l) ==
    LET pairs == Combinations(agg_models)
        k == CHOOSE i \in DOMAIN pairs :
                 Label(pairs[i][1]) # l /\ Label(pairs[i][2]) # l
    IN  {<<>>} \cup
        {<<[pair_index |-> k, model1 |-> Label(pairs[k][1]),
            model2 |-> Label(pairs[k][2]), results |-> r]>> : r \in OtherResults}

\* C20: a system's aggregate depends only on the pairs it belongs to: a
\* second run whose pair results agree with this one on every pair of
\* system l, and differ in any way on the pair without l, gives l the same
\* per-dimension aggregates, overall_average and num_comparisons.
C20_OwnPairsOnly ==
    AggReturned =>
        \A l \in DOMAIN model_scores :
            \A other \in OtherOutcomes(l) :
                AggregateModelScores(PairsOf(agg_input, l) \o other, agg_models)[l]
                    = model_scores[l]

\* a run in which the first system has a pair and the pair of the two other
\* systems gave results as well
C20_Witness ==
    /\ AggReturned
    /\ Len(agg_input) = 3
    /\ model_scores["baseline/A"].num_comparisons = 2
    /\ model_scores["ours/C"].num_comparisons = 2
    /\ \A i \in DOMAIN agg_input : "believability" \in DOMAIN agg_input[i].results

(***************************************************************************)
(* When an unknown dimension is reported in a batch (C21).                 *)
(***************************************************************************)
\* the batch was asked for a dimension that has no prompt template
UnknownRequested ==
    \E i \in DOMAIN Get(dimensions) : Get(dimensions)[i] \notin PromptTemplates

\* the loop over the pairs has been entered
LoopEntered == pc = "loop" \/ PastTheLoop

\* C21 as stated: a request naming an unknown dimension is reported once at
\* batch start, before the first pair is evaluated, and not again for each
\* cell or each pair.
C21_UnknownReportedOnceAtStart ==
    (LoopEntered /\ UnknownRequested) => Cardinality(SkipLines) = 1

(***************************************************************************)
(* What is on disk between two pairs of a batch (C22).                     *)
(***************************************************************************)
\* the session folder of pair i holds evaluation_logs.json and
\* aggregated_results.json
OnDisk(i) ==
    /\ i \in DOMAIN sessions
    /\ ~IsNone(sessions[i].logs)
    /\ ~IsNone(sessions[i].aggregated)

\* C22: whenever the batch is between two pairs (or after the last), every
\* pair before the current one that did not fail is recorded as successful,
\* and every pair recorded as successful has its evaluation log and its
\* aggregated summary on disk, the recorded results being those of the
\* file; so they are persisted before the first judge call of the next pair.
C22_PersistedBeforeNextPair ==
    LoopEntered =>
        /\ \A r \in DOMAIN pair_results :
              /\ pair_results[r].pair_index < idx
              /\ OnDisk(pair_results[r].pair_index)
              /\ pair_results[r].results =
                    Get(sessions[pair_results[r].pair_index].aggregated)
        /\ \A i \in 1..(idx - 1) :
              i \notin failed =>
                  \E r \in DOMAIN pair_results : pair_results[r].pair_index = i

\* between the first and the second of three pairs, the first one recorded
\* with a non-empty log on disk
C22_Witness ==
    /\ pc = "loop"
    /\ idx = 2
    /\ Len(all_pairs) = 3
    /\ Len(pair_results) = 1
    /\ OnDisk(1)
    /\ Get(sessions[1].logs) # <<>>

(***************************************************************************)
(* The batch's aggregate document (C23).                                   *)
(***************************************************************************)
\* the systems that have an aggregate for dimension d
SystemsWith(agg, d) == {l \in DOMAIN agg : d \in DOMAIN agg[l].dimensions}

\* the values f[l], l in S, in some order
RECURSIVE ListedValues(_, _)
ListedValues(f, S) ==
    IF S = {} THEN <<>>
    ELSE LET l == CHOOSE x \in S : TRUE
         IN  <<f[l]>> \o ListedValues(f, S \ {l})

\* C23: the batch aggregate document maps every requested dimension to a
\* model_scores mapping that holds exactly the systems with an aggregate for
\* the dimension, each with the value aggregate_model_scores computed, and
\* to an average that is the mean of those values, 0 for an empty mapping.
C23_AggregateDocument ==
    ~IsNone(batch_aggregated) =>
        LET doc == Get(batch_aggregated)
            agg == AggregateModelScores(pair_results, models)
        IN  /\ Get(model_aggregate) = agg
            /\ DOMAIN doc = Range(Get(dimensions))
            /\ \A d \in DOMAIN doc :
                  /\ DOMAIN doc[d].model_scores = SystemsWith(agg, d)
                  /\ \A l \in SystemsWith(agg, d) :
                        doc[d].model_scores[l] = agg[l].dimensions[d]
                  /\ SummaryIs(doc[d].average,
                               ListedValues(doc[d].model_scores, SystemsWith(agg, d)))

\* three systems of which the first lost both of its pairs: the mapping holds
\* the two others
C23_Witness ==
    /\ pc = "done"
    /\ Len(models) = 3
    /\ ~IsNone(batch_aggregated)
    /\ Get(dimensions) = <<"believability">>
    /\ Cardinality(DOMAIN Get(batch_aggregated)["believability"].model_scores) = 2
    /\ Get(batch_aggregated)["believability"].average # Zero

(***************************************************************************)
(* The left and the right system of a pair (C24).                          *)
(***************************************************************************)
\* the position of system m in the discovery order
PositionOf(m) == CHOOSE i \in DOMAIN models : models[i] = m

C25_BatchEndsWithoutRaising ==
    (Len(models) >= 2 /\ LoopEntered) =>
        /\ pc # "crashed"
        /\ pc \in {"reported", "done"} =>
              /\ ~IsNone(model_aggregate)
              /\ {"batch_results.json", "model_average_scores.csv",
                  "aggregated_results.json"} \subseteq files

(***************************************************************************)
(* One judge call per cell, in loop order (C26).                           *)
(***************************************************************************)
\* the reply texts of a judge that gives both scores or version_b_score only
SessionTexts(scores) ==
    {<<Obj(Some(LowScore(scores)), Some(LowScore(scores) + 1))>>,
     <<Obj(None, Some(LowScore(scores)))>>}

\* run_evaluation with such a judge, whose calls may also raise
InitSession ==
    /\ fs = <<>>
    /\ dimensions \in {Some(d) : d \in EvalDimensionChoices}
    /\ num_conversations \in {None} \cup {Some(n) : n \in 0..(MaxConvs + 1)}
    /\ judge_texts = SessionTexts(MinScore..MaxScore)
    /\ conv_len \in (0..MaxConvs) \X (0..MaxConvs)
    /\ ev_pc = "start" /\ num_pairs = 0 /\ ev = NoCells /\ session = None
    /\ output = <<>>
    /\ BatchIdle /\ AggIdle /\ MeanIdle

SpecSession == InitSession /\ [][NextEval]_vars

\* the conversation index of the cell with the given eval counter
IndexAt(counter) == (counter - 1) \div Len(Get(dimensions))

\* the judge calls made for the cell with the given eval counter
CallsFor(counter) ==
    {i \in DOMAIN ev.judge_calls :
        /\ ev.judge_calls[i].a = IndexAt(counter)
        /\ ev.judge_calls[i].dimension = DimensionAt(counter)}

\* the place of a (conversation index, dimension) in index-major,
\* dimension-minor order
PlaceOf(index, dimension) ==
    index * Len(Get(dimensions))
    + (CHOOSE j \in DOMAIN Get(dimensions) : Get(dimensions)[j] = dimension)

\* C26: every cell of a registered dimension that run_evaluation processes
\* has exactly one judge call, made with conversation i of the left source
\* and conversation i of the right source for the cell's index i; no cell
\* beyond the current one has a call; the calls and the log entries are in
\* index-major, dimension-minor order; and a loop that runs to its end has
\* processed every cell.
C26_OneCallPerCellInOrder ==
    ev_pc \notin {"idle", "start"} =>
        /\ \A c \in VisitedCells(TRUE) : Cardinality(CallsFor(c)) = 1
        /\ \A i \in DOMAIN ev.judge_calls :
              /\ ev.judge_calls[i].b = ev.judge_calls[i].a
              /\ PlaceOf(ev.judge_calls[i].a, ev.judge_calls[i].dimension)
                    \in VisitedCells(TRUE)
        /\ \A i, j \in DOMAIN ev.judge_calls :
              i < j => PlaceOf(ev.judge_calls[i].a, ev.judge_calls[i].dimension)
                          < PlaceOf(ev.judge_calls[j].a, ev.judge_calls[j].dimension)
        /\ \A i \in DOMAIN ev.all_results :
              /\ ev.all_results[i].conversation_a = ev.all_results[i].pair_index
              /\ ev.all_results[i].conversation_b = ev.all_results[i].pair_index
              /\ ev.all_results[i].eval_id =
                    PlaceOf(ev.all_results[i].pair_index, ev.all_results[i].dimension)
        /\ \A i, j \in DOMAIN ev.all_results :
              i < j => ev.all_results[i].eval_id < ev.all_results[j].eval_id
        /\ ~IsNone(Get(session).logs) => Get(Get(session).logs) = ev.all_results
        /\ LoopDone =>
              ev.eval_counter
                 = (IF ExpectedPairs < 0 THEN 0 ELSE ExpectedPairs) * Len(Get(dimensions))

\* two conversations on each side and two registered dimensions: four calls
\* and four log entries
C26_Witness ==
    /\ ev_pc = "returned"
    /\ Get(dimensions) = <<"believability", "empathy">>
    /\ Len(ev.judge_calls) = 4
    /\ Len(Get(Get(session).logs)) = 4
    /\ ev.judge_calls[4].a = 1 /\ ev.judge_calls[4].b = 1

(***************************************************************************)
(* num_comparisons counts the pair results of a system (C27).              *)
(***************************************************************************)
RECURSIVE SumComparisons(_, _)
SumComparisons(scores, labels) ==
    IF labels = {} THEN 0
    ELSE LET l == CHOOSE x \in labels : TRUE
         IN  scores[l].num_comparisons + SumComparisons(scores, labels \ {l})

\* C27: after aggregate_model_scores every system's num_comparisons is the
\* number of pair results that contain it, with or without scores in their
\* results; when no pair of the n systems failed it is n - 1 for every
\* system; and the sum over the systems is twice the number of pair results.
C27_ComparisonsCounted ==
    AggReturned =>
        /\ \A l \in DOMAIN model_scores :
              model_scores[l].num_comparisons = Len(PairsOf(agg_input, l))
        /\ Len(agg_input) = Len(Combinations(agg_models)) =>
              \A l \in DOMAIN model_scores :
                  model_scores[l].num_comparisons = Len(agg_models) - 1
        /\ SumComparisons(model_scores, DOMAIN model_scores) = 2 * Len(agg_input)

\* two pairs succeeded, the first of them without any score: its two
\* systems are counted all the same
C27_Witness ==
    /\ AggReturned
    /\ Len(agg_input) = 2
    /\ DOMAIN agg_input[1].results = {}
    /\ DOMAIN agg_input[2].results # {}
    /\ model_scores[agg_input[1].model1].num_comparisons = 2
    /\ model_scores[agg_input[1].model2].num_comparisons = 1

(***************************************************************************)
(* The status in a session's metadata (C28).                               *)
(***************************************************************************)
\* the log, the summary, the CSV report and the chart are all written
AllWritten(se) ==
    /\ ~IsNone(se.logs) /\ ~IsNone(se.aggregated) /\ se.csv /\ se.chart

\* C28: no judge call is made before the session's metadata is saved with
\* status "in_progress"; the status is "in_progress" during the loop and
\* Steps 5 to 8 and whenever run_evaluation has raised; it is "completed"
\* exactly when run_evaluation has returned, and then the log, the summary,
\* the CSV report and the chart are all written.
C28_StatusOfSession ==
    /\ IsNone(session) => (ev_pc \in {"idle", "start"} /\ ev.judge_calls = <<>>)
    /\ ~IsNone(session) =>
          /\ Get(session).status \in {"in_progress", "completed"}
          /\ ev_pc \in {"loop", "logged", "aggregated", "reported", "raised"}
                => Get(session).status = "in_progress"
          /\ ~AllWritten(Get(session)) => Get(session).status = "in_progress"
          /\ Get(session).status = "completed" <=> ev_pc = "returned"

\* run_evaluation raised while writing the chart, after every judge call
\* and after the log, the summary and the CSV report were written
C28_Witness ==
    /\ ev_pc = "raised"
    /\ ~IsNone(session)
    /\ ev.judge_calls # <<>>
    /\ ~IsNone(Get(session).logs) /\ ~IsNone(Get(session).aggregated)
    /\ Get(session).csv /\ ~Get(session).chart
    /\ Get(session).status = "in_progress"

(***************************************************************************)
(* What num_evaluations counts (C29).                                      *)
(***************************************************************************)
\* C29: in a pair's summary, num_evaluations of a dimension is the number of
\* that dimension's logged cells with a version_a_score, whatever their
\* version_b_score; path_2_average is the mean over the cells with a
\* version_b_score, which can be another number of cells.
C29_NumEvaluationsCountsLeft ==
    (ev_pc \notin {"idle", "start"} /\ ~IsNone(Get(session).aggregated)) =>
        LET summary == Get(Get(session).aggregated)
        IN  \A d \in DOMAIN summary :
                /\ summary[d].num_evaluations = Len(CellsWithA(d))
                /\ summary[d].num_evaluations <= Len(SelectSeq(ev.all_results,
                                                       LAMBDA r : r.dimension = d))
                /\ PresentB(d) # <<>> =>
                      RatSum(PresentB(d))
                         = RatSum([i \in 1..Len(CellsWithB(d)) |-> summary[d].path_2_average])

\* one cell with both scores and one with version_b_score only:
\* num_evaluations is 1 while path_2_average is a mean of two values
C29_Witness ==
    /\ ev_pc = "returned"
    /\ "believability" \in DOMAIN Get(Get(session).aggregated)
    /\ Get(Get(session).aggregated)["believability"].num_evaluations = 1
    /\ Len(CellsWithB("believability")) = 2
    /\ Get(Get(session).aggregated)["believability"].path_2_average
          \notin {FromInt(n) : n \in MinScore..MaxScore} \cup {Zero}
    /\ Get(Get(session).aggregated)["believability"].path_1_average # Zero

(***************************************************************************)
(* The averages of one system, as computed in floating point (C30).        *)
(***************************************************************************)
\* the lists of at most n scores
ScoreLists(scores, n) == UNION {[1..k -> scores] : k \in 0..n}

\* the systems of a batch: each belongs to Len(MeanModels) - 1 pairs
MeanModels ==
    <<Model("baseline", "A"), Model("baseline", "B"),
      Model("ours", "C"), Model("ours", "D")>>

\* one system and one dimension: for each of its pairs, the present scores
\* the judge gave its side, none included
InitMeans ==
    /\ fs = <<>> /\ dimensions = None /\ num_conversations = None
    /\ judge_texts = {}
    /\ mean_cells \in [1..(Len(MeanModels) - 1)
                       -> ScoreLists(MinScore..MaxScore, MaxConvs)]
    /\ mean_pairs = <<>>
    /\ mean_result = None
    /\ mean_pc = "pairs"
    /\ output = <<>>
    /\ BatchIdle /\ EvalIdle /\ AggIdle

\* aggregate_results of the system's next pair: its side's average
MeanPair ==
    /\ mean_pc = "pairs"
    /\ Len(mean_pairs) < Len(mean_cells)
    /\ mean_pairs' = Append(mean_pairs, IntegerMean(mean_cells[Len(mean_pairs) + 1]))
    /\ UNCHANGED <<envVars, batchVars, evalVars, aggVars, mean_pc, mean_cells,
                   mean_result>>

\* aggregate_model_scores: the system's average of the dimension and its
\* overall average
MeanSystem ==
    /\ mean_pc = "pairs"
    /\ Len(mean_pairs) = Len(mean_cells)
    /\ mean_result' = Some(FloatAverages([d \in {"believability"} |-> mean_pairs]))
    /\ mean_pc' = "returned"
    /\ UNCHANGED <<envVars, batchVars, evalVars, aggVars, mean_cells, mean_pairs>>

NextMeans ==
    \/ MeanPair
    \/ MeanSystem

SpecMeans == InitMeans /\ [][NextMeans]_vars

RatLeq(x, y) == ~RatLess(y, x)

Within(v, lo, hi) == RatLeq(lo, v) /\ RatLeq(v, hi)

\* every present score of the judge lies in lo..hi
ScoresWithin(lo, hi) ==
    \A k \in DOMAIN mean_cells : \A i \in DOMAIN mean_cells[k] :
        lo <= mean_cells[k][i] /\ mean_cells[k][i] <= hi

\* the lowest and the highest of a non-empty list of values
LowestOf(vals) ==
    CHOOSE v \in Range(vals) : \A w \in Range(vals) : RatLeq(v, w)

HighestOf(vals) ==
    CHOOSE v \in Range(vals) : \A w \in Range(vals) : RatLeq(w, v)

\* for scores in lo..hi every pair average is in [lo, hi] or is 0, and the
\* system's averages lie between min(0, lo) and max(0, hi)
AveragesWithinScale ==
    \A lo, hi \in MinScore..MaxScore :
        ScoresWithin(lo, hi) =>
            /\ \A k \in DOMAIN mean_pairs :
                  \/ Within(mean_pairs[k], FromInt(lo), FromInt(hi))
                  \/ (mean_cells[k] = <<>> /\ mean_pairs[k] = Zero)
            /\ ~IsNone(mean_result) =>
                  LET lo0 == FromInt(IF lo < 0 THEN lo ELSE 0)
                      hi0 == FromInt(IF hi > 0 THEN hi ELSE 0)
                  IN  /\ \A d \in DOMAIN Get(mean_result).dimensions :
                            Within(Get(mean_result).dimensions[d], lo0, hi0)
                      /\ Within(Get(mean_result).overall_average, lo0, hi0)

\* no average is below the lowest or above the highest of the values it is
\* taken over
StepsWithinInputs ==
    /\ \A k \in DOMAIN mean_pairs :
          mean_cells[k] # <<>> =>
              LET vals == [i \in DOMAIN mean_cells[k] |-> FromInt(mean_cells[k][i])]
              IN  Within(mean_pairs[k], LowestOf(vals), HighestOf(vals))
    /\ (~IsNone(mean_result) /\ mean_pairs # <<>>) =>
          /\ \A d \in DOMAIN Get(mean_result).dimensions :
                Within(Get(mean_result).dimensions[d],
                       LowestOf(mean_pairs), HighestOf(mean_pairs))
          /\ Within(Get(mean_result).overall_average,
                    LowestOf(mean_pairs), HighestOf(mean_pairs))

=============================================================================
